---- MODULE Spec2Model ----
(***************************************************************************)
(* Coal Mine: canary lifecycle (business_logic.py), the in-memory store    *)
(* (memory_store.py), the SIGALRM deadline engine and the crontab-derived  *)
(* cadence evaluator (crontab_schedule.py).                                *)
(*                                                                         *)
(* Time is a whole number of seconds since 2016-06-30 00:00:00 (naive      *)
(* UTC, a Thursday).  A canary record is a function from field names to    *)
(* values, as the source keeps it in a dict; a missing key is a missing    *)
(* field.                                                                  *)
(***************************************************************************)
EXTENDS Integers, Sequences, FiniteSets, TLC

VARIABLES
    canaries,       \* MemoryStore.canaries: id -> record
    now,            \* datetime.utcnow(), in seconds
    current_alarm,  \* BusinessLogic.current_alarm: <<>> (None) or <<deadline>>
    alarm,          \* the pending SIGALRM: <<>> (none) or <<instant it is due>>
    mail,           \* notify() calls of the last step, in order
    pending,        \* an operation between its store.get and its store.update
    call            \* argument and result of the function under evaluation

vars == <<canaries, now, current_alarm, alarm, mail, pending, call>>

----------------------------------------------------------------------------
(* Calendar                                                                *)

ONE_MINUTE == 60
ONE_HOUR == 3600
ONE_DAY == 86400
LIKE_FOREVER == 2678400
MinutesPerHour == 60
HoursPerDay == 24
DaysPerWeek == 7
\* crontab weekday (0 = Sunday) of second 0, 2016-06-30
EpochWeekday == 4

Max2(a, b) == IF a >= b THEN a ELSE b

\* datetime.replace(second=0, microsecond=0)
FloorMinute(t) == t - (t % ONE_MINUTE)

MinuteOf(t) == (t \div ONE_MINUTE) % MinutesPerHour
HourOf(t) == (t \div ONE_HOUR) % HoursPerDay
WeekdayOf(t) == ((t \div ONE_DAY) + EpochWeekday) % DaysPerWeek

----------------------------------------------------------------------------
(* Periodicities.  A number of seconds, or a schedule: the text split at   *)
(* ';' into entries "minute hour dom month dow key".  A crontab field is   *)
(* '*' or a set of values; day-of-month and month are '*' in every entry   *)
(* considered.  nfields is the number of whitespace separated fields of    *)
(* the entry line, key what float() makes of its sixth field: the number   *)
(* it reads as, NaN for the text "nan", Unreadable when float() raises,    *)
(* BelowMicrosecond for a positive number under half a microsecond.        *)

\* float("nan"), and the sixth fields float() raises on ("froodle"); no
\* command considered reads as one of these two numbers
NaN == -1
Unreadable == -2

\* a positive number of seconds that datetime.timedelta rounds to no time at
\* all, such as 1e-7; no other number considered reads as this one
BelowMicrosecond == -3

\* datetime.timedelta(seconds=k), in seconds: timedelta counts microseconds
\* and rounds its argument to the nearest
timedelta(k) == IF k = BelowMicrosecond THEN 0 ELSE k

Star == [star |-> TRUE, vals |-> {}]
Only(S) == [star |-> FALSE, vals |-> S]

Entry(mi, ho, dw, key) ==
    [nfields |-> 6, minute |-> mi, hour |-> ho, dom |-> Star, month |-> Star,
     dow |-> dw, key |-> key]

Num(n) == [kind |-> "num", n |-> n, newline |-> FALSE, entries |-> <<>>]
Sched(es) == [kind |-> "sched", n |-> 0, newline |-> FALSE, entries |-> es]

FieldMatches(f, v) == f.star \/ v \in f.vals

\* CronTab: the entry's five fields match the calendar labels of minute t
Matches(e, t) ==
    /\ FieldMatches(e.minute, MinuteOf(t))
    /\ FieldMatches(e.hour, HourOf(t))
    /\ FieldMatches(e.dow, WeekdayOf(t))

\* FastCronTab.next(now) == 60 for a now on a minute boundary: the next
\* matching minute after now is the very next one
NextIsOneMinute(e, t) == Matches(e, t + ONE_MINUTE)

\* CronTabSchedule.add_entry: the gap implied by one entry line
EntryGap(e) ==
    IF ~e.minute.star THEN ONE_MINUTE
    ELSE IF ~e.hour.star THEN ONE_HOUR
    ELSE IF e.dom.star /\ e.month.star /\ e.dow.star THEN LIKE_FOREVER
    ELSE ONE_DAY

RECURSIVE MinGap(_, _)
MinGap(es, i) ==
    IF i = Len(es) THEN EntryGap(es[i])
    ELSE LET g == EntryGap(es[i]) r == MinGap(es, i + 1) IN IF g <= r THEN g ELSE r

\* CronTabSchedule.smallest_change_gap after every add_entry
smallest_change_gap(es) == MinGap(es, 1)

\* CronTabSchedule.next_minute(now, multi=False): the key set of the single
\* entry active in the minute after now ({} for None), or a raise
next_minute(es, t) ==
    LET tm == FloorMinute(t)
        matches == {i \in 1..Len(es) : NextIsOneMinute(es[i], tm)}
    IN  IF matches = {} THEN [raised |-> FALSE, key |-> {}]
        ELSE IF Cardinality(matches) > 1 THEN [raised |-> TRUE, key |-> {}]
        ELSE [raised |-> FALSE, key |-> {es[i].key : i \in matches}]

\* CronTabSchedule.round_up
round_up(gap, t) ==
    IF gap = ONE_MINUTE THEN t
    ELSE IF gap = LIKE_FOREVER THEN t + LIKE_FOREVER
    ELSE IF gap = ONE_HOUR THEN t + (MinutesPerHour - MinuteOf(t)) * ONE_MINUTE
    ELSE t + (HoursPerDay - HourOf(t)) * ONE_HOUR - MinuteOf(t) * ONE_MINUTE

\* How many times the loop of schedule_iter is followed before the model
\* reports that the generator does not yield
MaxSteps == 40

\* what one next() of the generator gives: a tuple (start, end, key), a
\* raise, or nothing ever; and the generator's state after it
Yielded(start, end, key, current_start, current_key, next_start) ==
    [status |-> "yield", start |-> start, end |-> end, key |-> key,
     current_start |-> current_start, current_key |-> current_key,
     next_start |-> next_start]
Stopped(status) ==
    [status |-> status, start |-> 0, end |-> 0, key |-> {},
     current_start |-> 0, current_key |-> {}, next_start |-> 0]

\* One next() of the generator schedule_iter(start, multi=False,
\* endless=True), from the generator's state (current_start, current_key,
\* next_start)
RECURSIVE IterNext(_, _, _, _, _, _)
\* the body of the while loop, new being next_minute(next_start - ONE_MINUTE)
IterBody(es, gap, current_start, current_key, next_start, fuel, new) ==
    IF new.raised THEN Stopped("raise")
    ELSE IF new.key # current_key \/ gap = LIKE_FOREVER
    THEN Yielded(current_start, next_start - ONE_MINUTE, current_key,
                 next_start, new.key, next_start + gap)
    ELSE IterNext(es, gap, current_start, current_key, next_start + gap, fuel - 1)

IterNext(es, gap, current_start, current_key, next_start, fuel) ==
    IF fuel = 0 THEN Stopped("hang")
    ELSE IterBody(es, gap, current_start, current_key, next_start, fuel,
                  next_minute(es, next_start - ONE_MINUTE))

\* schedule_iter from its start to its first yield, cur being
\* next_minute(current_start - ONE_MINUTE)
IterStart(es, gap, current_start, cur) ==
    IF cur.raised THEN Stopped("raise")
    ELSE IterNext(es, gap, current_start, cur.key, round_up(gap, current_start),
                  MaxSteps)

\* the first n tuples of schedule_iter(start, multi=False, endless=True), as
\* far as the generator yields them
RECURSIVE Windows(_, _, _, _)
Windows(es, gap, w, n) ==
    IF n = 0 \/ w[Len(w)].status # "yield" THEN w
    ELSE Windows(es, gap,
                 Append(w, IterNext(es, gap, w[Len(w)].current_start,
                                    w[Len(w)].current_key,
                                    w[Len(w)].next_start, MaxSteps)),
                 n - 1)

schedule_iter(es, start, n) ==
    Windows(es, smallest_change_gap(es),
            <<IterStart(es, smallest_change_gap(es), FloorMinute(start),
                        next_minute(es, FloorMinute(start) - ONE_MINUTE))>>,
            n - 1)

\* float(key) of a yielded tuple
KeyOf(g) == CHOOSE k \in g.key : TRUE

Delta(d) == [status |-> "ok", delta |-> d]
TypeError == [status |-> "TypeError", delta |-> 0]
\* datetime.timedelta(seconds=float("nan")) raises ValueError
ValueError == [status |-> "ValueError", delta |-> 0]
Hang == [status |-> "hang", delta |-> 0]

\* the next() that did not yield: CronTabScheduleException becomes
\* TypeError; a generator that never yields never returns
Failure(w) == IF w[Len(w)].status = "raise" THEN TypeError ELSE Hang

\* the four cases with the deadline of the cases 2 and 3 counted from whence
\* and not from the start of the window taken
CaseDelta_CountedFromWhence(w, whence) ==
    IF w[1].status # "yield" THEN Failure(w)
    ELSE IF w[1].key = {}
    THEN IF Len(w) < 2 \/ w[2].status # "yield" THEN Failure(w)
         ELSE Delta(KeyOf(w[2]))
    ELSE IF whence + KeyOf(w[1]) <= w[1].end
    THEN Delta(KeyOf(w[1]))
    ELSE IF Len(w) < 2 \/ w[2].status # "yield" THEN Failure(w)
    ELSE IF w[2].key = {}
    THEN IF Len(w) < 3 \/ w[3].status # "yield" THEN Failure(w)
         ELSE Delta(KeyOf(w[3]))
    ELSE Delta(Max2(w[2].start, whence + KeyOf(w[2])) - whence)

\* the four cases with the deadline of case 4 counted from the start of the
\* following window, as it is in case 3
CaseDelta_Case4FromStart(w, whence) ==
    IF w[1].status # "yield" THEN Failure(w)
    ELSE IF w[1].key = {}
    THEN IF Len(w) < 2 \/ w[2].status # "yield" THEN Failure(w)
         ELSE Delta(w[2].start + KeyOf(w[2]) - whence)
    ELSE IF whence + KeyOf(w[1]) <= w[1].end
    THEN Delta(KeyOf(w[1]))
    ELSE IF Len(w) < 2 \/ w[2].status # "yield" THEN Failure(w)
    ELSE IF w[2].key = {}
    THEN IF Len(w) < 3 \/ w[3].status # "yield" THEN Failure(w)
         ELSE Delta(w[3].start + KeyOf(w[3]) - whence)
    ELSE Delta(w[2].start + KeyOf(w[2]) - whence)

\* BusinessLogic.calculate_periodicity_delta, the four cases, w being the
\* tuples the generator yields (three at most are taken)
CaseDelta(w, whence) ==
    IF w[1].status # "yield" THEN Failure(w)
    ELSE IF w[1].key = {}
    THEN \* Case 2
         IF Len(w) < 2 \/ w[2].status # "yield" THEN Failure(w)
         ELSE IF KeyOf(w[2]) = NaN THEN ValueError
         ELSE Delta(w[2].start + timedelta(KeyOf(w[2])) - whence)
    ELSE IF KeyOf(w[1]) = NaN THEN ValueError
    ELSE IF whence + timedelta(KeyOf(w[1])) <= w[1].end
    THEN \* Case 1
         Delta(timedelta(KeyOf(w[1])))
    ELSE IF Len(w) < 2 \/ w[2].status # "yield" THEN Failure(w)
    ELSE IF w[2].key = {}
    THEN \* Case 3
         IF Len(w) < 3 \/ w[3].status # "yield" THEN Failure(w)
         ELSE IF KeyOf(w[3]) = NaN THEN ValueError
         ELSE Delta(w[3].start + timedelta(KeyOf(w[3])) - whence)
    ELSE \* Case 4
         IF KeyOf(w[2]) = NaN THEN ValueError
         ELSE Delta(Max2(w[2].start, whence + timedelta(KeyOf(w[2]))) - whence)

ScheduleDelta(es, whence) == CaseDelta(schedule_iter(es, whence, 3), whence)

\* calculate_periodicity_delta reading a number as minutes
calculate_periodicity_delta_InMinutes(periodicity, whence) ==
    IF periodicity.kind = "num"
    THEN IF periodicity.n > 0 THEN Delta(periodicity.n * ONE_MINUTE)
         ELSE TypeError
    ELSE IF periodicity.newline THEN TypeError
    ELSE IF \E i \in 1..Len(periodicity.entries) :
                periodicity.entries[i].nfields < 6 THEN TypeError
    ELSE IF \E i \in 1..Len(periodicity.entries) :
                periodicity.entries[i].key <= 0 THEN TypeError
    ELSE IF periodicity.entries = <<>> THEN TypeError
    ELSE ScheduleDelta(periodicity.entries, whence)

\* BusinessLogic.calculate_periodicity_delta
calculate_periodicity_delta(periodicity, whence) ==
    IF periodicity.kind = "num"
    THEN IF periodicity.n > 0 \/ periodicity.n = BelowMicrosecond
         THEN Delta(timedelta(periodicity.n))
         ELSE TypeError
    ELSE IF periodicity.newline THEN TypeError
    ELSE IF \E i \in 1..Len(periodicity.entries) :
                periodicity.entries[i].nfields < 6 THEN TypeError
    ELSE IF \E i \in 1..Len(periodicity.entries) :
                \/ periodicity.entries[i].key = Unreadable
                \/ /\ periodicity.entries[i].key \notin {NaN, BelowMicrosecond}
                   /\ periodicity.entries[i].key <= 0 THEN TypeError
    ELSE IF periodicity.entries = <<>> THEN TypeError
    ELSE ScheduleDelta(periodicity.entries, whence)

\* BusinessLogic.validate_periodicity: calculate_periodicity_delta at utcnow()
validate_periodicity(periodicity, t) ==
    calculate_periodicity_delta(periodicity, t)

----------------------------------------------------------------------------
(* Names and slugs.  A name is a sequence of characters.                   *)

Lower(ch) == IF ch = "A" THEN "a" ELSE IF ch = "B" THEN "b" ELSE ch

\* the class [-\s_] of the first re.sub of BusinessLogic.slug
IsSeparator(ch) == ch \in {"-", " ", "_"}

\* the class [-\w] kept by the second re.sub
IsKept(ch) == ch \in {"-", "_", "a", "b", "A", "B", "0", "1"}

LowerAll(name) == [i \in 1..Len(name) |-> Lower(name[i])]

\* re.sub(r'[-\s_]+', '-', name)
RECURSIVE CollapseSeparators(_)
CollapseSeparators(name) ==
    IF name = <<>> THEN <<>>
    ELSE IF IsSeparator(Head(name))
    THEN IF Len(name) > 1 /\ IsSeparator(name[2])
         THEN CollapseSeparators(Tail(name))
         ELSE <<"-">> \o CollapseSeparators(Tail(name))
    ELSE <<Head(name)>> \o CollapseSeparators(Tail(name))

\* re.sub(r'[^-\w]+', '', name)
StripOthers(name) == SelectSeq(name, IsKept)

\* BusinessLogic.slug
slug(name) == StripOthers(CollapseSeparators(LowerAll(name)))

----------------------------------------------------------------------------
(* The store (MemoryStore)                                                 *)

None == <<>>
Some(v) == <<v>>

HasDeadline(c) == "deadline" \in DOMAIN c

\* MemoryStore.find_identifier: the ids whose slug matches (KeyError if none)
store_find_identifier(cs, s) == {i \in DOMAIN cs : cs[i].slug = s}

\* MemoryStore.create
store_create(cs, c) == [i \in DOMAIN cs \cup {c.id} |-> IF i = c.id THEN c ELSE cs[i]]

\* A dict of updates: vals maps the keys to set, none holds the keys whose
\* value is None
NoUpdates == [vals |-> <<>>, none |-> {}]
WithVal(u, k, v) == [u EXCEPT !.vals = (k :> v) @@ u.vals]
WithNone(u, k) == [u EXCEPT !.none = u.none \cup {k}]
UpdatedKeys(u) == DOMAIN u.vals \cup u.none

\* a faulty variant of ApplyUpdates: a key whose value is None is left alone
ApplyUpdates_KeepingNone(c, u) ==
    [k \in DOMAIN c \cup DOMAIN u.vals |->
        IF k \in DOMAIN u.vals THEN u.vals[k] ELSE c[k]]

\* MemoryStore.update on one record: a None value deletes the key
ApplyUpdates(c, u) ==
    [k \in (DOMAIN c \cup DOMAIN u.vals) \ u.none |->
        IF k \in DOMAIN u.vals THEN u.vals[k] ELSE c[k]]

\* MemoryStore.update
store_update(cs, id, u) == [cs EXCEPT ![id] = ApplyUpdates(cs[id], u)]

\* a faulty variant of store_delete: the record stays
store_delete_Keeping(cs, id) == cs

\* MemoryStore.delete
store_delete(cs, id) == [i \in DOMAIN cs \ {id} |-> cs[i]]

\* a faulty variant of Upcoming: the late canaries are not left out
Upcoming_WithLate(cs) == {i \in DOMAIN cs : ~cs[i].paused}

\* MemoryStore.upcoming_deadlines: the ids it may yield, as a set
Upcoming(cs) == {i \in DOMAIN cs : ~cs[i].paused /\ ~cs[i].late}

IsPermutation(order, S) ==
    /\ Len(order) = Cardinality(S)
    /\ {order[k] : k \in 1..Len(order)} = S

\* a faulty variant of UpcomingOrders: the canaries are not sorted
UpcomingOrders_Unsorted(cs) ==
    {order \in [1..Cardinality(Upcoming(cs)) -> Upcoming(cs)] :
        IsPermutation(order, Upcoming(cs))}

\* MemoryStore.upcoming_deadlines: sorted by deadline, ties in any order
UpcomingOrders(cs) ==
    {order \in [1..Cardinality(Upcoming(cs)) -> Upcoming(cs)] :
        /\ IsPermutation(order, Upcoming(cs))
        /\ \A j, k \in 1..Len(order) :
              j < k => cs[order[j]].deadline <= cs[order[k]].deadline}

\* next(self.store.upcoming_deadlines()): the possible first canaries
FirstUpcoming(cs) ==
    {i \in Upcoming(cs) : \A j \in Upcoming(cs) : cs[i].deadline <= cs[j].deadline}

----------------------------------------------------------------------------
(* History                                                                 *)

HistoryCap == 1000
HistoryKeep == 100
OneWeek == DaysPerWeek * ONE_DAY

\* a faulty variant of TrimHistory: only the cap of 1000 entries is kept
TrimHistory_CapOnly(history, one_week_ago) ==
    IF Len(history) > HistoryCap THEN SubSeq(history, 1, HistoryCap) ELSE history

\* the while loop of add_history: history.pop() as long as the condition
\* (Popping, with n entries left) holds, that is as many times as the first
\* count for which it does not
TrimHistory(history, one_week_ago) ==
    LET Popping(n) ==
            n > HistoryCap \/ (n > HistoryKeep /\ history[n][1] < one_week_ago)
    IN  SubSeq(history, 1,
               Len(history)
               - (CHOOSE pops \in 0..Len(history) :
                     /\ ~Popping(Len(history) - pops)
                     /\ \A j \in 0..(pops - 1) : Popping(Len(history) - j)))

\* BusinessLogic.add_history at utcnow() = t
add_history(history, comment, t) ==
    TrimHistory(<<<<t, comment>>>> \o history, t - OneWeek)

----------------------------------------------------------------------------
(* Lifecycle operations (BusinessLogic).  Each is computed from the store  *)
(* as read at instant t; an operation that reads a canary and later writes *)
(* it is a plan: the updates dict it builds, whether it notifies, and what *)
(* it returns.  The result of a plan is "ok" when the operation reaches    *)
(* its store write; periodicity_schedule, which create, update, pause and  *)
(* unpause call after the write on the copy they return, writes nothing.   *)

Fail(op, id, error) ==
    [op |-> op, id |-> id, result |-> error, updates |-> NoUpdates,
     notify |-> FALSE, canary |-> <<>>, ret |-> <<>>]

Plan(op, id, canary, updates, notify, ret) ==
    [op |-> op, id |-> id, result |-> "ok", updates |-> updates,
     notify |-> notify, canary |-> canary, ret |-> ret]

\* the record BusinessLogic.create hands to store.create
NewCanary(id, name, periodicity, description, emails, paused, t, delta) ==
    LET canary == [id |-> id, name |-> name, slug |-> slug(name),
                   periodicity |-> periodicity, description |-> description,
                   emails |-> emails, paused |-> paused,
                   history |-> <<<<t, "Canary created">>>>, late |-> FALSE]
    IN  IF paused THEN canary ELSE ("deadline" :> (t + delta)) @@ canary

\* BusinessLogic.periodicity_schedule at utcnow() = t: a number leaves the
\* record as it is; for a schedule the record gets the key
\* periodicity_schedule, whose value (the list of ranges, or the exception
\* that schedule_iter raises) is computed from the schedule and from t cut to
\* the minute, and is kept here as that pair
periodicity_schedule(canary, t) ==
    IF canary.periodicity.kind = "num" THEN canary
    ELSE ("periodicity_schedule" :>
             [schedule |-> canary.periodicity.entries, start |-> FloorMinute(t)])
         @@ canary

\* a faulty variant of CreatePlan: create returns the record it handed to
\* the store
CreatePlan_ReturningHanded(id, name, periodicity, description, emails, paused, t, v) ==
    IF v.status # "ok" THEN Fail("create", id, v.status)
    ELSE Plan("create", id,
              NewCanary(id, name, periodicity, description, emails, paused,
                        t, v.delta),
              NoUpdates, FALSE,
              NewCanary(id, name, periodicity, description, emails, paused,
                        t, v.delta))

\* BusinessLogic.create after the name and slug checks, v being the result
\* of validate_periodicity; it returns store.get(id), which is a copy of the
\* record just stored, after periodicity_schedule
CreatePlan(id, name, periodicity, description, emails, paused, t, v) ==
    IF v.status # "ok" THEN Fail("create", id, v.status)
    ELSE Plan("create", id,
              NewCanary(id, name, periodicity, description, emails, paused,
                        t, v.delta),
              NoUpdates, FALSE,
              periodicity_schedule(
                  NewCanary(id, name, periodicity, description, emails, paused,
                            t, v.delta), t))

\* BusinessLogic.create up to store.create: the record, or the error raised
create(cs, id, name, periodicity, description, emails, paused, t) ==
    IF name = <<>> THEN Fail("create", id, "TypeError")
    ELSE IF store_find_identifier(cs, slug(name)) # {}
    THEN Fail("create", id, "AlreadyExists")
    ELSE CreatePlan(id, name, periodicity, description, emails, paused, t,
                    validate_periodicity(periodicity, t))

\* BusinessLogic.get at utcnow() = t
get(cs, id, t) ==
    IF id \notin DOMAIN cs THEN Fail("get", id, "CanaryNotFound")
    ELSE Plan("get", id, cs[id], NoUpdates, FALSE, periodicity_schedule(cs[id], t))

\* BusinessLogic.delete up to store.delete
delete(cs, id) ==
    IF id \notin DOMAIN cs THEN Fail("delete", id, "CanaryNotFound")
    ELSE Plan("delete", id, cs[id], NoUpdates, FALSE, <<>>)

\* BusinessLogic.find_identifier(name): "" when store.find_identifier
\* returns an id, else the error raised
find_identifier(cs, name) ==
    IF name = <<>> THEN "Exception"
    ELSE IF store_find_identifier(cs, slug(name)) = {} THEN "CanaryNotFound"
    ELSE ""

\* the slug check of update, conflict being find_identifier(new_slug)
RenameChecked(name, new_slug, u, conflict) ==
    IF conflict = "CanaryNotFound"
    THEN [error |-> "",
          updates |-> WithVal(WithVal(u, "slug", new_slug), "name", name)]
    ELSE IF conflict = "" THEN [error |-> "AlreadyExists", updates |-> u]
    ELSE [error |-> conflict, updates |-> u]

\* BusinessLogic.update, the name argument
UpdateName(cs, canary, name, u) ==
    IF name = None \/ name = Some(canary.name) THEN [error |-> "", updates |-> u]
    ELSE IF name[1] = <<>> THEN [error |-> "TypeError", updates |-> u]
    ELSE IF canary.slug = slug(name[1])
    THEN [error |-> "", updates |-> WithVal(u, "name", name[1])]
    ELSE RenameChecked(name[1], slug(name[1]), u,
                       find_identifier(cs, slug(name[1])))

\* a faulty variant of LateChecked: the late flag is written and nobody is
\* notified
LateChecked_Silent(canary, u, is_late) ==
    IF is_late # canary.late
    THEN [error |-> "", updates |-> WithVal(u, "late", is_late), notify |-> FALSE]
    ELSE [error |-> "", updates |-> u, notify |-> FALSE]

\* the deadline part of update for an unpaused canary, u holding the new
\* periodicity and deadline
LateChecked(canary, u, is_late) ==
    IF is_late # canary.late
    THEN [error |-> "", updates |-> WithVal(u, "late", is_late), notify |-> TRUE]
    ELSE [error |-> "", updates |-> u, notify |-> FALSE]

\* a faulty variant of PeriodicityChecked: canary['paused'] is not tested, so
\* the deadline is recomputed for a paused canary too
PeriodicityChecked_IgnoringPaused(canary, periodicity, u, t, v, d) ==
    IF v.status # "ok" THEN [error |-> v.status, updates |-> u, notify |-> FALSE]
    ELSE IF d.status # "ok"
    THEN [error |-> d.status, updates |-> u, notify |-> FALSE]
    ELSE LateChecked(canary,
                     WithVal(WithVal(u, "periodicity", periodicity),
                             "deadline", canary.history[1][1] + d.delta),
                     canary.history[1][1] + d.delta < t)

\* BusinessLogic.update, the periodicity argument once it differs: v is the
\* result of validate_periodicity, d the delta from the history head
PeriodicityChecked(canary, periodicity, u, t, v, d) ==
    IF v.status # "ok" THEN [error |-> v.status, updates |-> u, notify |-> FALSE]
    ELSE IF canary.paused
    THEN [error |-> "", updates |-> WithVal(u, "periodicity", periodicity),
          notify |-> FALSE]
    ELSE IF d.status # "ok"
    THEN [error |-> d.status, updates |-> u, notify |-> FALSE]
    ELSE LateChecked(canary,
                     WithVal(WithVal(u, "periodicity", periodicity),
                             "deadline", canary.history[1][1] + d.delta),
                     canary.history[1][1] + d.delta < t)

\* BusinessLogic.update, the periodicity argument
UpdatePeriodicity(canary, periodicity, u, t) ==
    IF periodicity = None \/ periodicity = Some(canary.periodicity)
    THEN [error |-> "", updates |-> u, notify |-> FALSE]
    ELSE PeriodicityChecked(canary, periodicity[1], u, t,
             validate_periodicity(periodicity[1], t),
             calculate_periodicity_delta(periodicity[1], canary.history[1][1]))

SetOf(seq) == {seq[k] : k \in 1..Len(seq)}

\* BusinessLogic.update, the description argument
UpdateDescription(canary, description, u) ==
    IF description # None /\ description[1] # canary.description
    THEN WithVal(u, "description", description[1])
    ELSE u

\* a faulty variant of UpdateEmails: the lists are compared, not the sets
UpdateEmails_AsLists(canary, emails, u) ==
    IF emails # None /\ emails[1] # canary.emails
    THEN WithVal(u, "emails", emails[1])
    ELSE u

\* BusinessLogic.update, the emails argument
UpdateEmails(canary, emails, u) ==
    IF emails # None /\ SetOf(emails[1]) # SetOf(canary.emails)
    THEN WithVal(u, "emails", emails[1])
    ELSE u

\* BusinessLogic.update from the periodicity argument on, n being the
\* outcome of the name argument
UpdateRest(canary, n, periodicity, description, emails, t) ==
    IF n.error # "" THEN [error |-> n.error, updates |-> n.updates, notify |-> FALSE]
    ELSE UpdatePeriodicity(canary, periodicity, n.updates, t)

\* the end of update: p is the outcome of the name and periodicity
\* arguments, u the updates dict after all four
UpdatePlan(canary, p, u) ==
    IF p.error # "" THEN Fail("update", canary.id, p.error)
    ELSE IF UpdatedKeys(u) = {} THEN Fail("update", canary.id, "ValueError")
    ELSE Plan("update", canary.id, canary, u, p.notify, <<>>)

UpdateArgs(canary, p, description, emails) ==
    UpdatePlan(canary, p,
               UpdateEmails(canary, emails,
                            UpdateDescription(canary, description, p.updates)))

\* BusinessLogic.update up to store.update
update(cs, id, name, periodicity, description, emails, t) ==
    IF id \notin DOMAIN cs THEN Fail("update", id, "CanaryNotFound")
    ELSE UpdateArgs(cs[id],
                    UpdateRest(cs[id], UpdateName(cs, cs[id], name, NoUpdates),
                               periodicity, description, emails, t),
                    description, emails)

\* a faulty variant of TriggerFlags: paused is left as it was
TriggerFlags_KeepingPaused(canary, u) ==
    IF canary.late THEN WithVal(u, "late", FALSE) ELSE u

\* the flags trigger resets, u holding the history and the deadline
TriggerFlags(canary, u) ==
    IF canary.late /\ canary.paused
    THEN WithVal(WithVal(u, "late", FALSE), "paused", FALSE)
    ELSE IF canary.late THEN WithVal(u, "late", FALSE)
    ELSE IF canary.paused THEN WithVal(u, "paused", FALSE)
    ELSE u

\* a faulty variant of TriggerPlan: the pair returned is (was_paused,
\* was_late)
TriggerPlan_PairSwapped(canary, history, d) ==
    IF d.status # "ok" THEN Fail("trigger", canary.id, d.status)
    ELSE Plan("trigger", canary.id, canary,
              TriggerFlags(canary,
                  WithVal(WithVal(NoUpdates, "history", history),
                          "deadline", history[1][1] + d.delta)),
              canary.late, <<canary.paused, canary.late>>)

\* BusinessLogic.trigger after add_history, d being the delta from the new
\* history head
TriggerPlan(canary, history, d) ==
    IF d.status # "ok" THEN Fail("trigger", canary.id, d.status)
    ELSE Plan("trigger", canary.id, canary,
              TriggerFlags(canary,
                  WithVal(WithVal(NoUpdates, "history", history),
                          "deadline", history[1][1] + d.delta)),
              canary.late, <<canary.late, canary.paused>>)

\* BusinessLogic.trigger up to store.update
trigger(cs, id, t) ==
    IF id \notin DOMAIN cs THEN Fail("trigger", id, "CanaryNotFound")
    ELSE TriggerPlan(cs[id], add_history(cs[id].history, "Triggered", t),
                     calculate_periodicity_delta(cs[id].periodicity, t))

\* a faulty variant of PauseFlags: the late flag is left as it was
PauseFlags_KeepingLate(canary, u) == u

\* the updates dict of pause, u holding paused, the history and the deadline
PauseFlags(canary, u) ==
    IF canary.late THEN WithVal(u, "late", FALSE) ELSE u

\* BusinessLogic.pause up to store.update
pause(cs, id, t) ==
    IF id \notin DOMAIN cs THEN Fail("pause", id, "CanaryNotFound")
    ELSE IF cs[id].paused THEN Fail("pause", id, "AlreadyPaused")
    ELSE Plan("pause", id, cs[id],
              PauseFlags(cs[id],
                  WithNone(WithVal(WithVal(NoUpdates, "paused", TRUE), "history",
                                   add_history(cs[id].history, "Paused", t)),
                           "deadline")),
              FALSE, <<>>)

\* a faulty variant of UnpausePlan: the deadline is counted from the history
\* head the canary had while it was paused
UnpausePlan_FromOldHead(canary, history, d) ==
    IF d.status # "ok" THEN Fail("unpause", canary.id, d.status)
    ELSE Plan("unpause", canary.id, canary,
              WithVal(WithVal(WithVal(NoUpdates, "paused", FALSE),
                              "history", history),
                      "deadline", canary.history[1][1] + d.delta),
              FALSE, <<>>)

\* BusinessLogic.unpause after add_history, d being the delta from the new
\* history head
UnpausePlan(canary, history, d) ==
    IF d.status # "ok" THEN Fail("unpause", canary.id, d.status)
    ELSE Plan("unpause", canary.id, canary,
              WithVal(WithVal(WithVal(NoUpdates, "paused", FALSE),
                              "history", history),
                      "deadline", history[1][1] + d.delta),
              FALSE, <<>>)

\* BusinessLogic.unpause up to store.update
unpause(cs, id, t) ==
    IF id \notin DOMAIN cs THEN Fail("unpause", id, "CanaryNotFound")
    ELSE IF ~cs[id].paused THEN Fail("unpause", id, "AlreadyUnpaused")
    ELSE UnpausePlan(cs[id], add_history(cs[id].history, "Unpaused", t),
                     calculate_periodicity_delta(cs[id].periodicity, t))

\* BusinessLogic.notify: the message kind follows the late flag of the
\* caller's copy; nothing is sent to a canary without emails.  sent tells
\* whether the message went out: see Transport.
Notice(canary) ==
    [id |-> canary.id, kind |-> IF canary.late THEN "late" ELSE "recovered",
     sent |-> canary.emails # <<>>]

\* canary.update(updates) on the caller's copy, as far as notify reads it
LocalCopy(canary, u) ==
    IF "late" \in DOMAIN u.vals THEN [canary EXCEPT !.late = u.vals["late"]]
    ELSE canary

\* the try block of BusinessLogic.notify: connect, sendmail or quit may raise
\* for any message handed to smtplib; the exception is logged and notify
\* returns.  The outcomes of handing over the notices: each goes out or not.
Transport(notices) ==
    {[k \in 1..Len(notices) |-> [notices[k] EXCEPT !.sent = went[k]]] :
        went \in {w \in [1..Len(notices) -> BOOLEAN] :
                     \A k \in 1..Len(notices) : w[k] => notices[k].sent}}

\* a faulty variant of Arm: signal.alarm is called only when the deadline is
\* not the one current_alarm holds, as the log entry is
Arm_OnlyWhenChanged(deadline, t) ==
    IF current_alarm = Some(deadline)
    THEN [current_alarm |-> current_alarm, alarm |-> alarm]
    ELSE [current_alarm |-> Some(deadline),
          alarm |-> Some(t + Max2(1, deadline - t))]

\* signal.alarm(ceil(max(1, deadline - now))) and current_alarm = deadline
Arm(deadline, t) ==
    [current_alarm |-> Some(deadline), alarm |-> Some(t + Max2(1, deadline - t))]

\* a faulty variant of schedule_next_deadline: current_alarm is left as it
\* is when no deadline is upcoming
schedule_next_deadline_KeepingTarget(cs, t, al) ==
    IF Upcoming(cs) = {} THEN [current_alarm |-> current_alarm, alarm |-> al]
    ELSE Arm(cs[CHOOSE i \in FirstUpcoming(cs) : TRUE].deadline, t)

\* BusinessLogic.schedule_next_deadline(): current_alarm and the pending
\* SIGALRM it leaves, given the SIGALRM it finds pending
schedule_next_deadline(cs, t, al) ==
    IF Upcoming(cs) = {} THEN [current_alarm |-> None, alarm |-> al]
    ELSE Arm(cs[CHOOSE i \in FirstUpcoming(cs) : TRUE].deadline, t)

----------------------------------------------------------------------------
(* Bounds and inputs                                                       *)

MaxCanaries == 2
MaxNow == 3
MaxHistory == 2

Ids == 1..MaxCanaries

Names == {<<"a">>, <<"b">>}
Periods == {Num(1), Num(2)}
Descriptions == {""}
EmailLists == {<<>>}

Optional(S) == {None} \cup {Some(v) : v \in S}

----------------------------------------------------------------------------
(* Actions                                                                 *)

Init ==
    /\ canaries = <<>>
    /\ now = 0
    /\ current_alarm = None
    /\ alarm = None
    /\ mail = <<>>
    /\ pending = None
    /\ call = None

\* an operation that raised: nothing is written, nothing is sent
Rejected(p) ==
    /\ p.result # "ok"
    /\ mail' = <<>>
    /\ UNCHANGED <<canaries, now, current_alarm, alarm, pending, call>>

\* the part of update, trigger, pause and unpause from store.update on:
\* store.update, notify, schedule_next_deadline
Commit(p) ==
    LET cs == store_update(canaries, p.id, p.updates)
        r == schedule_next_deadline(cs, now, alarm)
    IN  /\ p.result = "ok"
        /\ canaries' = cs
        /\ mail' \in Transport(IF p.notify
                                THEN <<Notice(LocalCopy(p.canary, p.updates))>>
                                ELSE <<>>)
        /\ current_alarm' = r.current_alarm
        /\ alarm' = r.alarm
        /\ UNCHANGED <<now, call>>

\* BusinessLogic.create; create_identifier draws an id the store lacks
Create(name, periodicity, description, emails, paused) ==
    /\ pending = None
    /\ \E id \in Ids \ DOMAIN canaries :
          LET p == create(canaries, id, name, periodicity, description,
                          emails, paused, now)
              cs == store_create(canaries, p.canary)
              r == schedule_next_deadline(cs, now, alarm)
          IN  \/ Rejected(p)
              \/ /\ p.result = "ok"
                 /\ canaries' = cs
                 /\ current_alarm' = r.current_alarm
                 /\ alarm' = r.alarm
                 /\ mail' = <<>>
                 /\ UNCHANGED <<now, pending, call>>

\* BusinessLogic.update
Update(id, name, periodicity, description, emails) ==
    /\ pending = None
    /\ LET p == update(canaries, id, name, periodicity, description, emails, now)
       IN  \/ Rejected(p)
           \/ Commit(p) /\ UNCHANGED pending

\* trigger, pause and unpause add a history entry: the model stops adding
\* at MaxHistory entries
HistoryRoom(id) ==
    id \in DOMAIN canaries => Len(canaries[id].history) < MaxHistory

\* BusinessLogic.trigger
Trigger(id) ==
    /\ pending = None
    /\ HistoryRoom(id)
    /\ LET p == trigger(canaries, id, now)
       IN  \/ Rejected(p)
           \/ Commit(p) /\ UNCHANGED pending

\* BusinessLogic.pause
Pause(id) ==
    /\ pending = None
    /\ HistoryRoom(id)
    /\ LET p == pause(canaries, id, now)
       IN  \/ Rejected(p)
           \/ Commit(p) /\ UNCHANGED pending

\* BusinessLogic.unpause
Unpause(id) ==
    /\ pending = None
    /\ HistoryRoom(id)
    /\ LET p == unpause(canaries, id, now)
       IN  \/ Rejected(p)
           \/ Commit(p) /\ UNCHANGED pending

\* BusinessLogic.delete
Delete(id) ==
    /\ pending = None
    /\ IF delete(canaries, id).result # "ok"
       THEN Rejected(delete(canaries, id))
       ELSE LET cs == store_delete(canaries, id)
                r == schedule_next_deadline(cs, now, alarm)
            IN  /\ canaries' = cs
                /\ current_alarm' = r.current_alarm
                /\ alarm' = r.alarm
                /\ mail' = <<>>
                /\ UNCHANGED <<now, pending, call>>

\* a faulty variant of HandlerLoop: every canary yielded is marked late,
\* whatever its deadline
HandlerLoop_MarkingAll(snapshot, order, k, cs, sent, t) ==
    [canaries |-> [i \in DOMAIN cs |->
                     IF \E j \in 1..Len(order) : order[j] = i
                     THEN [cs[i] EXCEPT !.late = TRUE] ELSE cs[i]],
     mail |-> [j \in 1..Len(order) |->
                 Notice([snapshot[order[j]] EXCEPT !.late = TRUE])],
     current_alarm |-> None, alarm |-> None]

\* a faulty variant of HandlerLoop: the handler ends with the first notify,
\* as it would if notify let an exception through
HandlerLoop_EndingAtNotify(snapshot, order, k, cs, sent, t) ==
    IF k > Len(order)
    THEN [canaries |-> cs, mail |-> sent, current_alarm |-> None, alarm |-> None]
    ELSE IF snapshot[order[k]].deadline <= t
    THEN [canaries |-> store_update(cs, order[k], WithVal(NoUpdates, "late", TRUE)),
          mail |-> Append(sent, Notice([snapshot[order[k]] EXCEPT !.late = TRUE])),
          current_alarm |-> None, alarm |-> None]
    ELSE [canaries |-> cs, mail |-> sent] @@ Arm(snapshot[order[k]].deadline, t)

\* the loop of BusinessLogic.deadline_handler over the canaries that
\* upcoming_deadlines yielded (order), from the k-th on: the store, the
\* notices sent, current_alarm and the pending SIGALRM it ends with
RECURSIVE HandlerLoop(_, _, _, _, _, _)
HandlerLoop(snapshot, order, k, cs, sent, t) ==
    IF k > Len(order)
    THEN [canaries |-> cs, mail |-> sent, current_alarm |-> None, alarm |-> None]
    ELSE LET canary == snapshot[order[k]] IN
         IF canary.deadline <= t
         THEN HandlerLoop(snapshot, order, k + 1,
                          store_update(cs, canary.id,
                                       WithVal(NoUpdates, "late", TRUE)),
                          Append(sent, Notice([canary EXCEPT !.late = TRUE])), t)
         ELSE [canaries |-> cs, mail |-> sent] @@ Arm(canary.deadline, t)

\* BusinessLogic.deadline_handler at instant t
deadline_handler(cs, order, t) == HandlerLoop(cs, order, 1, cs, <<>>, t)

\* SIGALRM is delivered and deadline_handler runs
Fire ==
    /\ alarm # None
    /\ now >= alarm[1]
    /\ \E order \in UpcomingOrders(canaries) :
          LET h == deadline_handler(canaries, order, now) IN
          /\ canaries' = h.canaries
          /\ mail' \in Transport(h.mail)
          /\ current_alarm' = h.current_alarm
          /\ alarm' = h.alarm
    /\ UNCHANGED <<now, pending, call>>

\* a second passes
Tick ==
    /\ now < MaxNow
    /\ now' = now + 1
    /\ mail' = <<>>
    /\ UNCHANGED <<canaries, current_alarm, alarm, pending, call>>

\* operations run one at a time, and the handler between them
Next ==
    \/ \E name \in Names, periodicity \in Periods, description \in Descriptions,
          emails \in EmailLists, paused \in BOOLEAN :
          Create(name, periodicity, description, emails, paused)
    \/ \E id \in Ids, periodicity \in Optional(Periods) :
          Update(id, None, periodicity, None, None)
    \/ \E id \in Ids : Trigger(id)
    \/ \E id \in Ids : Pause(id)
    \/ \E id \in Ids : Unpause(id)
    \/ \E id \in Ids : Delete(id)
    \/ pending = None /\ Fire
    \/ Tick

Spec == Init /\ [][Next]_vars

----------------------------------------------------------------------------
(* The handler between an operation's read and its write.  SIGALRM is      *)
(* handled between two bytecodes of whatever the main thread is running,   *)
(* so deadline_handler can run after update, trigger, pause or unpause has *)
(* read the canary (store.get) and before it writes it (store.update).     *)

\* the operation has read the canary and built its updates
Begin(p) ==
    /\ p.result = "ok"
    /\ pending' = Some(p)
    /\ mail' = <<>>
    /\ UNCHANGED <<canaries, now, current_alarm, alarm, call>>

\* BusinessLogic.update up to its store.update
UpdateRead(id, name, periodicity, description, emails) ==
    /\ pending = None
    /\ LET p == update(canaries, id, name, periodicity, description, emails, now)
       IN  Rejected(p) \/ Begin(p)

\* BusinessLogic.trigger up to its store.update
TriggerRead(id) ==
    /\ pending = None
    /\ HistoryRoom(id)
    /\ LET p == trigger(canaries, id, now) IN Rejected(p) \/ Begin(p)

\* BusinessLogic.pause up to its store.update
PauseRead(id) ==
    /\ pending = None
    /\ HistoryRoom(id)
    /\ LET p == pause(canaries, id, now) IN Rejected(p) \/ Begin(p)

\* BusinessLogic.unpause up to its store.update
UnpauseRead(id) ==
    /\ pending = None
    /\ HistoryRoom(id)
    /\ LET p == unpause(canaries, id, now) IN Rejected(p) \/ Begin(p)

\* the rest of the operation: store.update, notify, schedule_next_deadline
Write ==
    /\ pending # None
    /\ Commit(pending[1])
    /\ pending' = None

\* one name, where a single canary is studied
OneName == {<<"a">>}

RaceNext ==
    \/ \E name \in OneName, periodicity \in Periods, paused \in BOOLEAN :
          Create(name, periodicity, "", <<>>, paused)
    \/ \E id \in Ids, periodicity \in Optional(Periods) :
          UpdateRead(id, None, periodicity, None, None)
    \/ \E id \in Ids : TriggerRead(id)
    \/ \E id \in Ids : PauseRead(id)
    \/ \E id \in Ids : UnpauseRead(id)
    \/ Write
    \/ \E id \in Ids : Delete(id)
    \/ Fire
    \/ pending = None /\ Tick

SpecRace == Init /\ [][RaceNext]_vars

----------------------------------------------------------------------------
(* Notifications.  Every canary has a recipient, so that every notice is   *)
(* handed to smtplib, which may fail.                                      *)

NotifyNext ==
    \/ \E name \in Names : Create(name, Num(1), "", <<"ops">>, FALSE)
    \/ \E id \in Ids, periodicity \in Periods :
          Update(id, None, Some(periodicity), None, None)
    \/ \E id \in Ids : Trigger(id)
    \/ pending = None /\ Fire
    \/ Tick

SpecNotify == Init /\ [][NotifyNext]_vars

----------------------------------------------------------------------------
(* Updates of every field.  The emails lists hold the same two addresses   *)
(* in another order or with one of them twice, one address, or none.       *)

EmailOrders == {<<>>, <<"x">>, <<"x", "y">>, <<"y", "x">>, <<"x", "x", "y">>}

FieldsNext ==
    \/ \E name \in Names, description \in {"", "d"}, emails \in EmailOrders :
          Create(name, Num(1), description, emails, FALSE)
    \/ \E id \in Ids, name \in Optional(Names), periodicity \in Optional(Periods),
          description \in Optional({"", "d"}), emails \in Optional(EmailOrders) :
          Update(id, name, periodicity, description, emails)

SpecFields == Init /\ [][FieldsNext]_vars

----------------------------------------------------------------------------
(* add_history as a function of the history and of the instant.  The       *)
(* histories are those a canary can have right after an append at the     *)
(* instant OneWeek: n entries, the newest ones stamped OneWeek and the old *)
(* oldest ones stamped up to a week earlier.                               *)

Histories ==
    {[i \in 1..n |-> IF i > n - old THEN <<stamp, "Triggered">>
                     ELSE <<OneWeek, "Triggered">>] :
        n \in {1, 2, 99, 100, 101, 150, 999, 1000}, old \in {0, 1, 2},
        stamp \in {0, OneWeek - 1}}

HistoryInit ==
    /\ canaries = <<>> /\ now = 0 /\ current_alarm = None /\ alarm = None
    /\ mail = <<>> /\ pending = None
    /\ call \in {Some([history |-> h, whence |-> OneWeek + later,
                       result |-> None]) :
                    h \in Histories, later \in {0, 1, 2, OneWeek + 1}}

\* add_history(history, comment) is called at the instant whence
AddHistory ==
    /\ call # None
    /\ call[1].result = None
    /\ call' = Some([call[1] EXCEPT !.result =
                        Some(add_history(call[1].history, "Triggered",
                                         call[1].whence))])
    /\ UNCHANGED <<canaries, now, current_alarm, alarm, mail, pending>>

SpecHistory == HistoryInit /\ [][AddHistory]_vars

\* C23: the history add_history leaves is non-empty, newest first with
\* non-increasing instants, holds at most 1000 entries and, when it holds
\* more than 100, its oldest entry is not older than 7 days at the append.
C23_HistoryKept ==
    (call # None /\ call[1].result # None) =>
        LET history == call[1].result[1]
            t == call[1].whence
        IN  /\ Len(history) >= 1
            /\ history[1] = <<t, "Triggered">>
            /\ \A i \in 1..(Len(history) - 1) : history[i][1] >= history[i + 1][1]
            /\ Len(history) <= HistoryCap
            /\ Len(history) > HistoryKeep =>
                   history[Len(history)][1] >= t - OneWeek

\* a history of 1000 entries whose two oldest are older than a week loses
\* both, the first to the cap and the second to its age
C23_Witness ==
    /\ call # None
    /\ call[1].result # None
    /\ Len(call[1].history) = HistoryCap
    /\ call[1].history[HistoryCap - 1][1] < call[1].whence - OneWeek
    /\ Len(call[1].result[1]) = HistoryCap - 1

\* C24: the record create returns equals the record get(id) returns right
\* after it, with the canary paused or not and its periodicity a number or a
\* schedule.
C24_CreateReturnsWhatGetReturns ==
    [][\A id \in Ids :
          (id \notin DOMAIN canaries /\ id \in DOMAIN canaries') =>
              LET c == canaries'[id]
                  p == create(canaries, id, c.name, c.periodicity, c.description,
                              c.emails, c.paused, now)
              IN  /\ p.result = "ok"
                  /\ get(canaries', id, now').result = "ok"
                  /\ p.ret = get(canaries', id, now').ret]_vars

\* a canary on a schedule has just been created unpaused; get returns its
\* record with the schedule's ranges
C24_Witness ==
    \E id \in DOMAIN canaries :
        /\ canaries[id].periodicity.kind = "sched"
        /\ ~canaries[id].paused
        /\ canaries[id].history = <<<<now, "Canary created">>>>
        /\ get(canaries, id, now).ret # canaries[id]
        /\ get(canaries, id, now).ret.periodicity_schedule.start = 0

\* C25: after a delete(id) that succeeded, get and every other operation
\* on that id raise CanaryNotFound; and delete, get, update, trigger, pause
\* and unpause of an id the store does not hold raise CanaryNotFound.
C25_NotFound ==
    /\ [](\A id \in Ids \ DOMAIN canaries :
            /\ delete(canaries, id).result = "CanaryNotFound"
            /\ get(canaries, id, now).result = "CanaryNotFound"
            /\ trigger(canaries, id, now).result = "CanaryNotFound"
            /\ pause(canaries, id, now).result = "CanaryNotFound"
            /\ unpause(canaries, id, now).result = "CanaryNotFound"
            /\ \A name \in Optional(Names), periodicity \in Optional(Periods),
                  description \in Optional(Descriptions),
                  emails \in Optional(EmailLists) :
                  update(canaries, id, name, periodicity, description, emails,
                         now).result = "CanaryNotFound")
    /\ [][\A id \in DOMAIN canaries :
             Delete(id) =>
                 /\ get(canaries', id, now').result = "CanaryNotFound"
                 /\ delete(canaries', id).result = "CanaryNotFound"
                 /\ trigger(canaries', id, now').result = "CanaryNotFound"
                 /\ pause(canaries', id, now').result = "CanaryNotFound"
                 /\ unpause(canaries', id, now').result = "CanaryNotFound"
                 /\ \A periodicity \in Optional(Periods) :
                       update(canaries', id, None, periodicity, None, None,
                              now').result = "CanaryNotFound"]_vars

\* the only canary has been deleted with its alarm pending: no id is held
\* any more
C25_Witness ==
    /\ canaries = <<>>
    /\ alarm # None
    /\ \A id \in Ids : get(canaries, id, now).result = "CanaryNotFound"

\* C26: upcoming_deadlines yields exactly the stored canaries that are
\* neither paused nor late, each once, in ascending order of deadline; so a
\* canary that a firing marked late is not yielded, and the first canary
\* yielded is the one with the soonest deadline among the others.
C26_UpcomingDeadlines ==
    \A order \in UpcomingOrders(canaries) :
        /\ \A id \in DOMAIN canaries :
              (~canaries[id].paused /\ ~canaries[id].late)
                  <=> (\E k \in 1..Len(order) : order[k] = id)
        /\ \A j, k \in 1..Len(order) : j # k => order[j] # order[k]
        /\ \A k \in 1..(Len(order) - 1) :
              canaries[order[k]].deadline <= canaries[order[k + 1]].deadline
        /\ \A k \in 1..Len(order) : order[k] \in DOMAIN canaries
        /\ Len(order) > 0 =>
              \A id \in DOMAIN canaries :
                  (~canaries[id].paused /\ ~canaries[id].late) =>
                      canaries[order[1]].deadline <= canaries[id].deadline

\* the canary with the sooner deadline has been marked late by a firing: the
\* other one is the only one yielded
C26_Witness ==
    \E id, other \in DOMAIN canaries :
        /\ canaries[id].late /\ ~canaries[id].paused
        /\ ~canaries[other].late /\ ~canaries[other].paused
        /\ canaries[id].deadline < canaries[other].deadline
        /\ UpcomingOrders(canaries) = {<<other>>}

----------------------------------------------------------------------------
(* The store on its own: create and update are called on a MemoryStore     *)
(* directly, as its tests do, with records that BusinessLogic.create       *)
(* builds and with update dicts.                                           *)

StoreRecords ==
    {NewCanary(id, name, Num(2), "", <<>>, paused, 0, 2) :
        id \in Ids, name \in Names, paused \in BOOLEAN}

\* update dicts: empty, one key set, one key None, both, and keys that the
\* records of StoreRecords do not have
Patches ==
    {NoUpdates,
     WithVal(NoUpdates, "late", TRUE),
     WithVal(NoUpdates, "periodicity", Num(1)),
     WithNone(NoUpdates, "deadline"),
     WithNone(WithVal(NoUpdates, "paused", TRUE), "deadline"),
     WithVal(WithVal(NoUpdates, "paused", FALSE), "deadline", 3),
     WithNone(NoUpdates, "comment"),
     WithVal(NoUpdates, "comment", "c")}

\* MemoryStore.create(canary)
StoreCreate(canary) ==
    /\ canaries' = store_create(canaries, canary)
    /\ UNCHANGED <<now, current_alarm, alarm, mail, pending, call>>

\* MemoryStore.update(identifier, updates); self.canaries[identifier] raises
\* KeyError for an identifier that is not stored
StoreUpdate(identifier, updates) ==
    /\ canaries' = IF identifier \in DOMAIN canaries
                   THEN store_update(canaries, identifier, updates)
                   ELSE canaries
    /\ UNCHANGED <<now, current_alarm, alarm, mail, pending, call>>

StoreNext ==
    \/ \E canary \in StoreRecords : StoreCreate(canary)
    \/ \E identifier \in Ids, updates \in Patches : StoreUpdate(identifier, updates)

SpecStore == Init /\ [][StoreNext]_vars

\* C27: the store's create rejects a record whose id or slug is that of a
\* stored record and leaves the stored records as they are.
C27_DuplicateRejected ==
    [][\A canary \in StoreRecords :
          (/\ StoreCreate(canary)
           /\ \E i \in DOMAIN canaries :
                 canaries[i].id = canary.id \/ canaries[i].slug = canary.slug)
              => canaries' = canaries]_vars

\* two stored records have the same slug
C27_Witness ==
    \E i, j \in DOMAIN canaries : i # j /\ canaries[i].slug = canaries[j].slug

\* C28: after store.update(id, patch) every key whose patch value is None
\* is missing from the stored record, every other key of the patch holds the
\* patch value, every key the patch does not name is as it was, and the
\* records of the other canaries are as they were.
C28_StoreUpdate ==
    [][\A identifier \in DOMAIN canaries, updates \in Patches :
          StoreUpdate(identifier, updates) =>
              /\ \A k \in updates.none : k \notin DOMAIN canaries'[identifier]
              /\ \A k \in DOMAIN updates.vals :
                    /\ k \in DOMAIN canaries'[identifier]
                    /\ canaries'[identifier][k] = updates.vals[k]
              /\ \A k \in DOMAIN canaries[identifier] \ UpdatedKeys(updates) :
                    /\ k \in DOMAIN canaries'[identifier]
                    /\ canaries'[identifier][k] = canaries[identifier][k]
              /\ DOMAIN canaries'[identifier]
                    \subseteq DOMAIN canaries[identifier] \cup DOMAIN updates.vals
              /\ DOMAIN canaries' = DOMAIN canaries
              /\ \A other \in DOMAIN canaries \ {identifier} :
                    canaries'[other] = canaries[other]]_vars

\* the deadline of a running canary has been removed by an update whose
\* deadline is None, next to another canary that still has its own
C28_Witness ==
    \E identifier, other \in DOMAIN canaries :
        /\ ~canaries[identifier].paused
        /\ ~HasDeadline(canaries[identifier])
        /\ identifier # other
        /\ ~canaries[other].paused
        /\ HasDeadline(canaries[other])

\* C30: when the handler runs between the read and the write of a trigger,
\* the canary is stored as one of the two serial orders leaves it: with the
\* history and the deadline of the trigger and not late (the firing before
\* the trigger marks it late and the trigger resets it; the firing after the
\* trigger finds the new deadline in the future).
C30_TriggerRaceSerial ==
    [][(pending # None /\ pending[1].op = "trigger" /\ Write) =>
          /\ ~canaries'[pending[1].id].late
          /\ canaries'[pending[1].id]
                = [ApplyUpdates(pending[1].canary, pending[1].updates)
                      EXCEPT !.late = FALSE]]_vars

\* a trigger has just completed and the canary is stored late, with its new
\* deadline in the future
C30_Witness ==
    \E id \in DOMAIN canaries :
        /\ pending = None
        /\ canaries[id].history[1] = <<now, "Triggered">>
        /\ canaries[id].late
        /\ ~canaries[id].paused
        /\ canaries[id].deadline > now
        /\ mail = <<>>

\* C31: after every lifecycle operation and after every firing, current_alarm
\* is the smallest deadline among the stored canaries that are neither
\* paused nor late, and None when there is no such canary.
C31_ArmedForEarliest ==
    LET active == {id \in DOMAIN canaries :
                      ~canaries[id].paused /\ ~canaries[id].late}
    IN  IF active = {} THEN current_alarm = None
        ELSE /\ current_alarm # None
             /\ \E id \in active : canaries[id].deadline = current_alarm[1]
             /\ \A id \in active : canaries[id].deadline >= current_alarm[1]

\* one canary has been paused after its creation and the other one, which
\* is running, is the one armed for
C31_Witness ==
    \E id, other \in DOMAIN canaries :
        /\ canaries[id].paused
        /\ Len(canaries[id].history) = 2
        /\ ~canaries[other].paused /\ ~canaries[other].late
        /\ current_alarm = Some(canaries[other].deadline)

\* C32: when no stored canary is unpaused and not late, no SIGALRM armed
\* earlier is pending and current_alarm is None.
C32_TimerCancelled ==
    (\A id \in DOMAIN canaries : canaries[id].paused \/ canaries[id].late) =>
        (alarm = None /\ current_alarm = None)

\* the only canary has been paused and the SIGALRM armed at its creation is
\* still pending
C32_Witness ==
    /\ alarm # None
    /\ current_alarm = None
    /\ \E id \in DOMAIN canaries :
          /\ DOMAIN canaries = {id}
          /\ canaries[id].paused
          /\ canaries[id].history[1][2] = "Paused"

\* C33: every operation or firing that ends with an unpaused, non-late canary
\* in the store arms the SIGALRM for max(1 s, earliest deadline - now) from
\* now, also when that deadline is the one current_alarm already holds.
C33_TimerRefreshed ==
    [][(/\ now' = now
        /\ canaries' # canaries \/ alarm' # alarm
        /\ \E id \in DOMAIN canaries' :
              ~canaries'[id].paused /\ ~canaries'[id].late) =>
          \E id \in DOMAIN canaries' :
              /\ ~canaries'[id].paused /\ ~canaries'[id].late
              /\ \A other \in DOMAIN canaries' :
                    (~canaries'[other].paused /\ ~canaries'[other].late)
                        => canaries'[id].deadline <= canaries'[other].deadline
              /\ alarm' = Some(now + Max2(1, canaries'[id].deadline - now))
              /\ current_alarm' = Some(canaries'[id].deadline)]_vars

\* a second canary has just been created while the deadline of the first,
\* which current_alarm holds, has come: the SIGALRM is set again, a second
\* from now
C33_Witness ==
    \E id, other \in DOMAIN canaries :
        /\ id # other
        /\ canaries[other].history = <<<<now, "Canary created">>>>
        /\ ~canaries[id].paused /\ ~canaries[id].late
        /\ canaries[id].deadline = now
        /\ current_alarm = Some(now)
        /\ alarm = Some(now + 1)

\* C35: a firing adds and removes no canary and changes no field but late,
\* which it only sets; a canary that is paused, late already or whose
\* deadline is in the future is left as it is and gets no notice.
C35_FiringFrame ==
    [][Fire =>
          /\ DOMAIN canaries' = DOMAIN canaries
          /\ \A id \in DOMAIN canaries :
                /\ DOMAIN canaries'[id] = DOMAIN canaries[id]
                /\ \A k \in DOMAIN canaries[id] \ {"late"} :
                      canaries'[id][k] = canaries[id][k]
                /\ canaries[id].late => canaries'[id].late
                /\ (\/ canaries[id].paused
                    \/ canaries[id].late
                    \/ canaries[id].deadline > now) =>
                      /\ canaries'[id] = canaries[id]
                      /\ \A k \in 1..Len(mail') : mail'[k].id # id]_vars

\* a firing has just marked one canary late and left the other one, whose
\* deadline is in the future, running
C35_Witness ==
    /\ Len(mail) = 1
    /\ mail[1].kind = "late"
    /\ canaries[mail[1].id].late
    /\ alarm # None /\ alarm[1] > now
    /\ \E other \in DOMAIN canaries :
          /\ ~canaries[other].paused /\ ~canaries[other].late
          /\ canaries[other].deadline > now
          /\ current_alarm = Some(canaries[other].deadline)

----------------------------------------------------------------------------
(* MemoryStore.update key by key.  Its loop assigns or deletes one key of  *)
(* the updates dict at a time, in the order in which the operation         *)
(* inserted the keys, and SIGALRM can be handled between two keys.  The    *)
(* keys still to be written are kept with the plan, as left.               *)

\* trigger, pause or unpause up to the call of store.update
PatchRead(op, id) ==
    LET p == CASE op = "trigger" -> trigger(canaries, id, now)
               [] op = "pause" -> pause(canaries, id, now)
               [] OTHER -> unpause(canaries, id, now)
        order == CASE op = "trigger" -> <<"history", "deadline", "late", "paused">>
                   [] op = "pause" -> <<"paused", "history", "deadline", "late">>
                   [] OTHER -> <<"paused", "history", "deadline">>
        Named(k) == k \in UpdatedKeys(p.updates)
    IN  /\ pending = None
        /\ \A i \in DOMAIN canaries :
              canaries[i].paused \/ HasDeadline(canaries[i])
        /\ HistoryRoom(id)
        /\ \/ Rejected(p)
           \/ /\ p.result = "ok"
              /\ pending' = Some(("left" :> SelectSeq(order, Named)) @@ p)
              /\ mail' = <<>>
              /\ UNCHANGED <<canaries, now, current_alarm, alarm, call>>

\* one turn of the loop of MemoryStore.update; after the last one the
\* operation goes on with notify and schedule_next_deadline
WriteKey ==
    /\ pending # None
    /\ LET p == pending[1]
           k == Head(p.left)
           cs == store_update(canaries, p.id,
                              IF k \in p.updates.none THEN WithNone(NoUpdates, k)
                              ELSE WithVal(NoUpdates, k, p.updates.vals[k]))
           r == schedule_next_deadline(cs, now, alarm)
       IN  /\ canaries' = cs
           /\ IF Len(p.left) > 1
              THEN /\ pending' = Some([p EXCEPT !.left = Tail(p.left)])
                   /\ mail' = <<>>
                   /\ UNCHANGED <<current_alarm, alarm>>
              ELSE /\ pending' = None
                   /\ mail' \in Transport(
                          IF p.notify THEN <<Notice(LocalCopy(p.canary, p.updates))>>
                          ELSE <<>>)
                   /\ current_alarm' = r.current_alarm
                   /\ alarm' = r.alarm
    /\ UNCHANGED <<now, call>>

\* SIGALRM is delivered.  sorted(..., key=lambda i: i['deadline']) raises
\* KeyError on a canary that is neither paused nor late and has no deadline:
\* the exception leaves the handler after current_alarm = None and ends the
\* operation that was interrupted, inside store.update.
PatchFire ==
    /\ alarm # None
    /\ now >= alarm[1]
    /\ IF \E i \in Upcoming(canaries) : ~HasDeadline(canaries[i])
       THEN /\ current_alarm' = None
            /\ alarm' = None
            /\ pending' = None
            /\ mail' = <<>>
            /\ UNCHANGED <<canaries, now, call>>
       ELSE Fire

PatchNext ==
    \/ \E name \in Names, paused \in BOOLEAN :
          /\ \A i \in DOMAIN canaries :
                canaries[i].paused \/ HasDeadline(canaries[i])
          /\ Create(name, Num(1), "", <<>>, paused)
    \/ \E op \in {"trigger", "pause", "unpause"}, id \in Ids : PatchRead(op, id)
    \/ WriteKey
    \/ PatchFire
    \/ pending = None /\ Tick

SpecPatch == Init /\ [][PatchNext]_vars

\* C34: the handler never runs on a store in which only part of the updates
\* of an operation has been written.
C34_PatchAtomic ==
    [][PatchFire =>
          (pending # None =>
              Len(pending[1].left)
                  = Cardinality(UpdatedKeys(pending[1].updates)))]_vars

\* the handler has ended an unpause after its first key: the canary is
\* stored unpaused without a deadline, and no operation is running
C34_Witness ==
    /\ pending = None
    /\ \E id \in DOMAIN canaries :
          /\ ~canaries[id].paused
          /\ ~canaries[id].late
          /\ ~HasDeadline(canaries[id])

\* C36: whenever no operation is running and some stored canary is unpaused
\* and not late, a SIGALRM is pending, for no later than one second after
\* the later of the earliest deadline of those canaries and the instant at
\* which it was armed, which is not after now.
C36_TimerPending ==
    LET active == {id \in DOMAIN canaries :
                      ~canaries[id].paused /\ ~canaries[id].late}
    IN  (pending = None /\ active # {}) =>
            /\ alarm # None
            /\ \A id \in active : HasDeadline(canaries[id])
            /\ \E id \in active :
                  /\ \A other \in active :
                        canaries[id].deadline <= canaries[other].deadline
                  /\ alarm[1] <= Max2(canaries[id].deadline, now) + 1

\* no operation is running and no SIGALRM is pending, while a canary whose
\* deadline has passed is stored unpaused and not late
C36_Witness ==
    /\ pending = None
    /\ alarm = None
    /\ \E id \in DOMAIN canaries :
          /\ ~canaries[id].paused
          /\ ~canaries[id].late
          /\ HasDeadline(canaries[id])
          /\ canaries[id].deadline <= now

----------------------------------------------------------------------------
(* The HTTP interface (server.application).  A request has a path, the     *)
(* values of its auth_key parameters in the order of the query string, and *)
(* the id it names.  A path is url_prefix followed by a command ("api"),   *)
(* a slash followed by eight lowercase letters, which are the id           *)
(* ("short"), or a path that does not start with url_prefix, command being *)
(* what it holds from the length of url_prefix on ("other").               *)

Requests ==
    {[path |-> path, keys |-> keys, id |-> id] :
        path \in {[kind |-> "api", command |-> command] :
                     command \in {"create", "delete", "update", "get", "list",
                                  "trigger", "pause", "unpause", "froodle"}}
                 \cup {[kind |-> "short", command |-> ""],
                       [kind |-> "other", command |-> "create"],
                       [kind |-> "other", command |-> "froodle"]},
        keys \in {<<>>, <<"bad">>, <<"good">>, <<"bad", "good">>},
        id \in Ids}

\* a faulty variant of application: a request without any auth_key is let in
application_KeyOptional(auth_key, request) ==
    LET handlers == {"create", "delete", "update", "get", "list", "trigger",
                     "pause", "unpause"}
        short == request.path.kind = "short"
        command == IF short THEN "trigger" ELSE request.path.command
    IN  IF (~short /\ request.path.kind # "api") \/ command \notin handlers
        THEN [status |-> "404 Not Found", command |-> ""]
        ELSE IF /\ auth_key # None
                /\ command # "trigger"
                /\ request.keys # <<>>
                /\ Some(request.keys[1]) # auth_key
        THEN [status |-> "401 Unauthorized", command |-> ""]
        ELSE [status |-> "", command |-> command]

\* server.application up to the call of the handler: the status it answers
\* itself, or the command whose handler it calls.  The path of a short
\* request is rewritten to url_prefix + 'trigger'; the auth_key compared is
\* the first one of the query string, None when there is none.
application(auth_key, request) ==
    LET handlers == {"create", "delete", "update", "get", "list", "trigger",
                     "pause", "unpause"}
        short == request.path.kind = "short"
        command == IF short THEN "trigger" ELSE request.path.command
    IN  IF (~short /\ request.path.kind # "api") \/ command \notin handlers
        THEN [status |-> "404 Not Found", command |-> ""]
        ELSE IF /\ auth_key # None
                /\ command # "trigger"
                /\ (IF request.keys = <<>> THEN None ELSE Some(request.keys[1]))
                       # auth_key
        THEN [status |-> "401 Unauthorized", command |-> ""]
        ELSE [status |-> "", command |-> command]

\* application(business_logic, auth_key, environ, start_response) with its
\* handler.  handle_trigger finds the auth_key that application did not pop
\* from the query and answers 400 (valid_parameters); get and list read.
Request(auth_key, request, name, periodicity) ==
    LET a == application(auth_key, request) IN
    \/ /\ \/ a.command \in {"", "get", "list"}
          \/ a.command = "trigger" /\ request.keys # <<>>
       /\ pending = None
       /\ mail' = <<>>
       /\ UNCHANGED <<canaries, now, current_alarm, alarm, pending, call>>
    \/ a.command = "trigger" /\ request.keys = <<>> /\ Trigger(request.id)
    \/ a.command = "create" /\ Create(name, periodicity, "", <<>>, FALSE)
    \/ a.command = "update"
          /\ Update(request.id, None, Some(periodicity), None, None)
    \/ a.command = "pause" /\ Pause(request.id)
    \/ a.command = "unpause" /\ Unpause(request.id)
    \/ a.command = "delete" /\ Delete(request.id)

ServerNext ==
    \/ \E request \in Requests, name \in OneName, periodicity \in Periods :
          Request(Some("good"), request, name, periodicity)
    \/ pending = None /\ Fire
    \/ Tick

SpecServer == Init /\ [][ServerNext]_vars

\* C29: with an auth key configured, a request to a known endpoint other
\* than trigger that has no correct auth_key is answered 401 and changes
\* nothing; a trigger request, by the trigger endpoint or by the path made of
\* the id, is handled without a key; a request to an unknown path is
\* answered 404.
C29_AuthBeforeHandlers ==
    /\ [](\A request \in Requests :
            LET a == application(Some("good"), request)
                unkeyed == \A k \in 1..Len(request.keys) : request.keys[k] # "good"
            IN  /\ (/\ request.path.kind = "api"
                    /\ request.path.command \in
                          {"create", "delete", "update", "get", "list",
                           "pause", "unpause"}
                    /\ unkeyed) => a.status = "401 Unauthorized"
                /\ (/\ \/ request.path.kind = "short"
                       \/ /\ request.path.kind = "api"
                          /\ request.path.command = "trigger"
                    /\ request.keys = <<>>) => a.command = "trigger"
                /\ (\/ request.path.kind = "other"
                    \/ /\ request.path.kind = "api"
                       /\ request.path.command = "froodle")
                      => a.status = "404 Not Found")
    /\ [][\A request \in Requests :
             /\ application(Some("good"), request).status = "401 Unauthorized" =>
                   \A name \in OneName, periodicity \in Periods :
                       Request(Some("good"), request, name, periodicity)
                           => UNCHANGED <<canaries, now, current_alarm, alarm>>
             /\ (/\ application(Some("good"), request).command = "trigger"
                 /\ request.keys = <<>>) =>
                   \A name \in OneName, periodicity \in Periods :
                       Request(Some("good"), request, name, periodicity)
                           => Trigger(request.id)]_vars

\* a canary has been triggered, which only a request without a key does,
\* while a request to pause it with a wrong key is answered 401
C29_Witness ==
    \E id \in DOMAIN canaries :
        /\ canaries[id].history[1][2] = "Triggered"
        /\ application(Some("good"),
                       [path |-> [kind |-> "api", command |-> "pause"],
                        keys |-> <<"bad">>, id |-> id]).status
              = "401 Unauthorized"
        /\ application(Some("good"),
                       [path |-> [kind |-> "short", command |-> ""],
                        keys |-> <<>>, id |-> id]).command = "trigger"

----------------------------------------------------------------------------
(* Renames.  Names whose slug is not a fixed point of slug: "-!-" has slug *)
(* "--", and "--" has slug "-".                                            *)

SlugNames == {<<"-", "!", "-">>, <<"-", "-">>, <<"a">>, <<"b">>, <<"B">>}

NamesNext ==
    \/ \E name \in SlugNames, paused \in BOOLEAN :
          Create(name, Num(1), "", <<>>, paused)
    \/ \E id \in Ids, name \in SlugNames :
          Update(id, Some(name), None, None, None)
    \/ \E id \in Ids : Delete(id)

SpecNames == Init /\ [][NamesNext]_vars

----------------------------------------------------------------------------
(* Schedules as periodicities of stored canaries.  The clock starts at     *)
(* 2016-06-30 00:00:00.                                                    *)

\* "* 0 * * * 60"
MidnightHour == Sched(<<Entry(Star, Only({0}), Star, 60)>>)

\* "* 0 * * * 60; * 5 * * * 30; * 5 * * * 120": two entries match every
\* minute from 05:00 to 05:59
OverlapAtFive ==
    Sched(<<Entry(Star, Only({0}), Star, 60), Entry(Star, Only({5}), Star, 30),
            Entry(Star, Only({5}), Star, 120)>>)

\* "* * * * * 30; * * * * * 60" (test_periodicity_invalid_overlapping)
OverlapAlways ==
    Sched(<<Entry(Star, Star, Star, 30), Entry(Star, Star, Star, 60)>>)

\* "* 0 * * * 120; * 5 * * * nan": float() reads the second command as NaN
NaNAtFive ==
    Sched(<<Entry(Star, Only({0}), Star, 120), Entry(Star, Only({5}), Star, NaN)>>)

\* the periodicities of test_periodicity_invalid*: 0, a schedule with a
\* newline, "* * * * 1200" (five fields), "* * * * * 0", "* * * * * froodle";
\* and "* * * * * nan", NaNAtFive
MalformedPeriods ==
    {Num(0),
     [MidnightHour EXCEPT !.newline = TRUE],
     Sched(<<[Entry(Star, Star, Star, 1200) EXCEPT !.nfields = 5]>>),
     Sched(<<Entry(Star, Star, Star, 0)>>),
     Sched(<<Entry(Star, Star, Star, Unreadable)>>),
     Sched(<<Entry(Star, Star, Star, NaN)>>),
     NaNAtFive}

SchedPeriods ==
    {Num(1), MidnightHour, OverlapAtFive, OverlapAlways} \cup MalformedPeriods

SchedNext ==
    \/ \E name \in OneName, periodicity \in SchedPeriods, paused \in BOOLEAN :
          Create(name, periodicity, "", <<>>, paused)
    \/ \E id \in Ids, periodicity \in SchedPeriods :
          Update(id, None, Some(periodicity), None, None)
    \/ \E id \in Ids : Delete(id)
    \/ pending = None /\ Fire
    \/ Tick

SpecSched == Init /\ [][SchedNext]_vars

----------------------------------------------------------------------------
(* calculate_periodicity_delta as a function of the schedule and of whence *)

\* "* 0 * * * 120" (test_periodicity_delta_case_2 and _3)
HourZero == <<Entry(Star, Only({0}), Star, 120)>>

\* "* 0 * * * 120; * 1 * * * 600" (test_periodicity_delta_case_4)
HourZeroThenOne ==
    <<Entry(Star, Only({0}), Star, 120), Entry(Star, Only({1}), Star, 600)>>

\* "* 0 * * * 60; * 1 * * * 60": two entries, one command
SameCommand ==
    <<Entry(Star, Only({0}), Star, 60), Entry(Star, Only({1}), Star, 60)>>

\* "* * * * 4 30": every minute of Thursday
Thursdays == <<Entry(Star, Star, Only({4}), 30)>>

\* "* * * * * 90": always active
Always == <<Entry(Star, Star, Star, 90)>>

DeltaSchedules == {HourZero, HourZeroThenOne, SameCommand, Thursdays, Always}

\* instants of 2016-06-30 around the end of the hours 00 and 01
Whences ==
    {h * ONE_HOUR + m * ONE_MINUTE + sec :
        h \in {0, 1}, m \in {0, 55, 56, 57, 58, 59}, sec \in {0, 30}}

DeltaInit ==
    /\ canaries = <<>> /\ now = 0 /\ current_alarm = None /\ alarm = None
    /\ mail = <<>> /\ pending = None
    /\ call \in {Some([periodicity |-> Sched(es), whence |-> w, result |-> None]) :
                    es \in DeltaSchedules, w \in Whences}

\* calculate_periodicity_delta(periodicity, whence) is called and returns or
\* raises
Calculate ==
    /\ call # None
    /\ call[1].result = None
    /\ call' = Some([call[1] EXCEPT !.result =
                        Some(calculate_periodicity_delta(call[1].periodicity,
                                                         call[1].whence))])
    /\ UNCHANGED <<canaries, now, current_alarm, alarm, mail, pending>>

SpecDelta == DeltaInit /\ [][Calculate]_vars

----------------------------------------------------------------------------
(* Time without end.  Once the clock has reached MaxNow the instants are   *)
(* kept relative to it: a second passing moves every stored instant one    *)
(* second back, and an instant MaxNow seconds old or older stays at 0.     *)
(* Numeric periodicities are below MaxNow, so what the operations compute  *)
(* from an instant kept at 0 (deadline <= now, deadline < now, the delay   *)
(* of the alarm) is what they compute from the older instant.              *)

Back(t) == IF t > 0 THEN t - 1 ELSE 0

BackCanary(c) ==
    [k \in DOMAIN c |->
        IF k = "deadline" THEN Back(c[k])
        ELSE IF k = "history"
        THEN [j \in 1..Len(c[k]) |-> <<Back(c[k][j][1]), c[k][j][2]>>]
        ELSE c[k]]

BackOption(o) == IF o = None THEN None ELSE Some(Back(o[1]))

\* a second passes; a SIGALRM that is due is delivered before the next
\* second starts
Advance ==
    /\ ~(alarm # None /\ now >= alarm[1])
    /\ IF now < MaxNow
       THEN /\ now' = now + 1
            /\ UNCHANGED <<canaries, current_alarm, alarm>>
       ELSE /\ now' = now
            /\ canaries' = [i \in DOMAIN canaries |-> BackCanary(canaries[i])]
            /\ current_alarm' = BackOption(current_alarm)
            /\ alarm' = BackOption(alarm)
    /\ mail' = <<>>
    /\ UNCHANGED <<pending, call>>

\* the canary named "a" is left alone once created
Watched(id) == id \in DOMAIN canaries /\ canaries[id].name = <<"a">>

LiveNext ==
    \/ \E name \in Names, periodicity \in Periods :
          Create(name, periodicity, "", <<>>, FALSE)
    \/ \E id \in Ids, periodicity \in Periods :
          ~Watched(id) /\ Update(id, None, Some(periodicity), None, None)
    \/ pending = None /\ Fire
    \/ Advance

\* An operation that arrives in the second in which the pending SIGALRM
\* falls due may run before it: instants are whole seconds, and signal.alarm
\* counts at least one whole second from the call.  A SIGALRM that stays
\* pending is delivered, and time passes.
SpecLive == Init /\ [][LiveNext]_vars /\ WF_vars(Fire) /\ WF_vars(Advance)

----------------------------------------------------------------------------
(* Properties                                                              *)

\* the canary id is in the store before and after the step
Kept(id) == id \in DOMAIN canaries /\ id \in DOMAIN canaries'

\* the step is create returning a new canary id
Created(id) == id \notin DOMAIN canaries /\ id \in DOMAIN canaries'

\* the delta the cadence asks for at instant t, read off the periodicity
ExpectedDelta(periodicity, t) ==
    IF periodicity.kind = "num" THEN periodicity.n
    ELSE calculate_periodicity_delta(periodicity, t).delta

\* C1: in every state reached by create, update, trigger, pause, unpause,
\* delete and timer firings, a stored canary is paused if and only if its
\* record has no deadline field.
C1_PausedIffNoDeadline ==
    \A id \in DOMAIN canaries :
        canaries[id].paused <=> ~HasDeadline(canaries[id])

\* a canary that was paused by pause (not created paused) and another one
\* that is running: both sides of the equivalence
C1_Witness ==
    \E i, j \in DOMAIN canaries :
        /\ canaries[i].paused /\ canaries[i].history[1][2] = "Paused"
        /\ ~HasDeadline(canaries[i])
        /\ ~canaries[j].paused /\ HasDeadline(canaries[j])

\* C3: a trigger of an existing canary that runs to completion at instant
\* now leaves it not late, not paused, with one new history head stamped now
\* and deadline now + D(now, periodicity).
C3_TriggerResets ==
    [][\A id \in Ids :
          (Kept(id) /\ Trigger(id) /\ trigger(canaries, id, now).result = "ok")
          => /\ canaries'[id].late = FALSE
             /\ canaries'[id].paused = FALSE
             /\ canaries'[id].history
                    = <<<<now, "Triggered">>>> \o canaries[id].history
             /\ HasDeadline(canaries'[id])
             /\ canaries'[id].deadline
                    = now + ExpectedDelta(canaries[id].periodicity, now)]_vars

\* a late canary has just been triggered: the recovery notice is the mail of
\* the step, and the canary is running again
C3_Witness ==
    \E id \in DOMAIN canaries :
        /\ Len(mail) = 1 /\ mail[1].id = id /\ mail[1].kind = "recovered"
        /\ canaries[id].history[1] = <<now, "Triggered">>
        /\ ~canaries[id].late /\ ~canaries[id].paused

\* the canaries a firing at instant now finds elapsed
Elapsed == {i \in Upcoming(canaries) : canaries[i].deadline <= now}

\* C5: one firing of the timer marks late every canary that is unpaused, not
\* late and has deadline <= now, and sends their late notices in ascending
\* order of deadline.
C5_FiringMarksAllInOrder ==
    [][(pending = None /\ Fire)
       => /\ \A i \in Elapsed : canaries'[i].late
          /\ {mail'[k].id : k \in 1..Len(mail')} = Elapsed
          /\ Len(mail') = Cardinality(Elapsed)
          /\ \A k \in 1..Len(mail') : mail'[k].kind = "late"
          /\ \A j, k \in 1..Len(mail') :
                j < k => canaries[mail'[j].id].deadline
                            <= canaries[mail'[k].id].deadline]_vars

\* one firing has just marked two canaries with different deadlines
C5_Witness ==
    /\ Len(mail) = 2
    /\ mail[1].kind = "late" /\ mail[2].kind = "late"
    /\ canaries[mail[1].id].late /\ canaries[mail[2].id].late
    /\ canaries[mail[1].id].deadline < canaries[mail[2].id].deadline

\* C7: an unpaused canary that is late has a deadline that is not in the
\* future.
C7_LateOnlyWhenElapsed ==
    \A id \in DOMAIN canaries :
        (~canaries[id].paused /\ canaries[id].late /\ HasDeadline(canaries[id]))
        => canaries[id].deadline <= now

\* the step wrote canary id (create, update, trigger or unpause) and left it
\* unpaused and not late
WrittenRunning(id) ==
    /\ id \in DOMAIN canaries'
    /\ id \in DOMAIN canaries => canaries'[id] # canaries[id]
    /\ ~canaries'[id].paused
    /\ ~canaries'[id].late

\* C8 as claimed: right after any operation commits a canary that is not
\* paused and not late, its deadline is strictly later than the current time.
C8_Original ==
    [][\A id \in Ids :
          WrittenRunning(id) => canaries'[id].deadline > now']_vars

\* an update of the periodicity has just left a running canary with a
\* deadline equal to the current time
C8_Witness ==
    \E id \in DOMAIN canaries :
        /\ ~canaries[id].paused /\ ~canaries[id].late
        /\ canaries[id].deadline = now
        /\ canaries[id].history[1][1] + canaries[id].periodicity.n = now
        /\ Len(canaries[id].history) = 1
        /\ canaries[id].periodicity = Num(1)
        /\ now = 1

\* C6: in every reachable state, those reached when the handler runs in
\* the middle of a pause or update included, no stored canary is paused and
\* late at once.
C6_NeverPausedAndLate ==
    \A id \in DOMAIN canaries : ~(canaries[id].paused /\ canaries[id].late)

\* the handler ran between the read and the write of a pause: the canary
\* is stored paused, without deadline, and late
C6_Witness ==
    \E id \in DOMAIN canaries :
        /\ canaries[id].paused /\ canaries[id].late
        /\ canaries[id].history[1][2] = "Paused"
        /\ pending = None

\* the handler ran between the read and the write of an update of the
\* periodicity: the canary is stored late with a deadline in the future
C7_Witness ==
    \E id \in DOMAIN canaries :
        /\ ~canaries[id].paused /\ canaries[id].late
        /\ canaries[id].deadline > now
        /\ Len(canaries[id].history) = 1
        /\ pending = None

\* C2: after any sequence of create, update (renames included) and delete,
\* no two stored canaries share an id, no two share a slug, and every slug
\* is the slug of the canary's name.
C2_UniqueIdAndSlug ==
    /\ \A i, j \in DOMAIN canaries :
          i # j => /\ canaries[i].id # canaries[j].id
                   /\ canaries[i].slug # canaries[j].slug
    /\ \A i \in DOMAIN canaries : canaries[i].slug = slug(canaries[i].name)

\* two stored canaries with the same name and the same slug
C2_Witness ==
    \E i, j \in DOMAIN canaries :
        /\ i # j
        /\ canaries[i].slug = canaries[j].slug
        /\ canaries[i].name = canaries[j].name

\* two entries of the schedule match the same calendar minute.  The fields
\* day-of-month and month are "*", and every combination of minute, hour
\* and weekday labels some minute of a week.
Overlapping(es) ==
    \E i, j \in 1..Len(es) :
        /\ i < j
        /\ \E v \in 0..(MinutesPerHour - 1) :
              FieldMatches(es[i].minute, v) /\ FieldMatches(es[j].minute, v)
        /\ \E v \in 0..(HoursPerDay - 1) :
              FieldMatches(es[i].hour, v) /\ FieldMatches(es[j].hour, v)
        /\ \E v \in 0..(DaysPerWeek - 1) :
              FieldMatches(es[i].dow, v) /\ FieldMatches(es[j].dow, v)

\* C9: create and update reject every schedule in which some calendar
\* minute is matched by two or more entries, whatever the time of the
\* validation, so that no such schedule is ever stored as the periodicity of
\* a canary.
C9_OverlapNeverStored ==
    \A id \in DOMAIN canaries :
        canaries[id].periodicity.kind = "sched"
        => ~Overlapping(canaries[id].periodicity.entries)

\* a canary is stored with a schedule in which two entries match the
\* minutes from 05:00 to 05:59
C9_Witness ==
    \E id \in DOMAIN canaries :
        /\ canaries[id].periodicity = OverlapAtFive
        /\ HasDeadline(canaries[id])
        /\ canaries[id].deadline = canaries[id].history[1][1] + 60

\* the commands of the entries that match the minute of instant t
ActiveKeys(es, t) ==
    {es[i].key : i \in {i \in 1..Len(es) : Matches(es[i], FloorMinute(t))}}

\* How many minutes after whence the end of its window is looked for
MaxWindow == 6

\* the minutes after that of t, up to MaxWindow, in which cmd is not the
\* active command
Inactive(es, cmd, t) ==
    {k \in 1..MaxWindow : ActiveKeys(es, t + k * ONE_MINUTE) # {cmd}}

\* an instant up to which the window of cmd that contains t lasts: the
\* first minute after t in which cmd is no longer the active command, or the
\* end of the minutes looked at when cmd is active in all of them
WindowEnd(es, cmd, t) ==
    IF Inactive(es, cmd, t) = {}
    THEN FloorMinute(t) + (MaxWindow + 1) * ONE_MINUTE
    ELSE FloorMinute(t)
         + ONE_MINUTE * (CHOOSE k \in Inactive(es, cmd, t) :
                            \A j \in Inactive(es, cmd, t) : k <= j)

\* C10: when command cmd is active at whence and whence + cmd is no later
\* than the end of the window of contiguous active minutes containing
\* whence (the first instant at which cmd is no longer active), the deadline
\* is whence + cmd.
C10_DeadlineWithinWindow ==
    (call # None /\ call[1].result # None)
    => \A cmd \in ActiveKeys(call[1].periodicity.entries, call[1].whence) :
          ( /\ ActiveKeys(call[1].periodicity.entries, call[1].whence) = {cmd}
            /\ call[1].whence + cmd
                  <= WindowEnd(call[1].periodicity.entries, cmd, call[1].whence) )
          => call[1].result[1] = Delta(cmd)

\* "* 0 * * * 120" at 00:57:30: the deadline computed is 00:02:00 of the
\* next day, 83070 seconds later, and not 00:59:30
C10_Witness ==
    /\ call # None
    /\ call[1].periodicity = Sched(HourZero)
    /\ call[1].whence = 57 * ONE_MINUTE + 30
    /\ call[1].result = Some(Delta(83070))

\* the canary is running and its deadline has passed
Overdue(id) ==
    /\ id \in DOMAIN canaries
    /\ ~canaries[id].paused /\ ~canaries[id].late
    /\ canaries[id].deadline <= now

\* C4: a running canary whose deadline has passed, and to which no trigger,
\* pause, update or delete is applied, is eventually stored late (and the
\* late notice of that firing names it), whichever canary it is.
C4_OverdueEventuallyLate ==
    \A id \in Ids :
        (Overdue(id) /\ Watched(id))
        ~> (id \in DOMAIN canaries /\ canaries[id].late)

\* the watched canary is overdue, and an update of the other canary has
\* just moved the pending SIGALRM one second ahead
C4_Witness ==
    \E id \in DOMAIN canaries :
        /\ Overdue(id) /\ Watched(id)
        /\ now = MaxNow
        /\ canaries[id].deadline = 0
        /\ alarm = Some(now + 1)

----------------------------------------------------------------------------
(* The windows of a schedule, minute by minute: a window is a run of       *)
(* calendar minutes in which the active command is the same (or in which   *)
(* no entry is active).                                                    *)

\* How many minutes ahead the start of the next window is looked for
MaxAhead == 1500

\* the minutes after that of t, up to MaxAhead, in which the active commands
\* are not those of the minute of t
ChangeMinutes(es, t) ==
    {k \in 1..MaxAhead : ActiveKeys(es, t + k * ONE_MINUTE) # ActiveKeys(es, t)}

\* the start of the window that follows the one containing t
NextWindow(es, t) ==
    FloorMinute(t)
    + ONE_MINUTE * (CHOOSE k \in ChangeMinutes(es, t) :
                       \A j \in ChangeMinutes(es, t) : k <= j)

\* the deadline counted from the start s of a window with an active entry
FromStart(es, s) == s + (CHOOSE cmd \in ActiveKeys(es, s) : TRUE)

\* C11: cadence cases 2 and 3.  When no entry is active at whence, the
\* deadline is the start of the next window plus that window's command; when
\* an entry is active at whence, whence plus its command is past the end of
\* the current window and the window that follows has no active entry, the
\* deadline is the start of the window after that one plus its command.
C11_NextActiveWindow ==
    (call # None /\ call[1].result # None /\ call[1].periodicity.kind = "sched")
    => LET es == call[1].periodicity.entries
           whence == call[1].whence
       IN  /\ ( /\ ActiveKeys(es, whence) = {}
                /\ ChangeMinutes(es, whence) # {} )
              => call[1].result[1]
                    = Delta(FromStart(es, NextWindow(es, whence)) - whence)
           /\ \A cmd \in ActiveKeys(es, whence) :
                ( /\ ActiveKeys(es, whence) = {cmd}
                  /\ ChangeMinutes(es, whence) # {}
                  /\ whence + cmd > NextWindow(es, whence)
                  /\ ActiveKeys(es, NextWindow(es, whence)) = {}
                  /\ ChangeMinutes(es, NextWindow(es, whence)) # {} )
                => call[1].result[1]
                      = Delta(FromStart(es, NextWindow(es, NextWindow(es, whence)))
                              - whence)

\* "* 0 * * * 120" from 00:59: the command overflows into the hours without
\* entry, and the deadline is 2016-07-01 00:02
C11_Witness ==
    /\ call # None
    /\ call[1].periodicity = Sched(HourZero)
    /\ call[1].whence = 59 * ONE_MINUTE
    /\ ActiveKeys(HourZero, NextWindow(HourZero, call[1].whence)) = {}
    /\ call[1].result = Some(Delta(ONE_DAY + 2 * ONE_MINUTE - 59 * ONE_MINUTE))

C13_NumericDeadline ==
    [][\A id \in Ids :
          ( /\ Created(id)
            /\ ~canaries'[id].paused
            /\ canaries'[id].periodicity.kind = "num" )
          => /\ canaries'[id].periodicity.n > 0
             /\ calculate_periodicity_delta(canaries'[id].periodicity, now)
                   = Delta(canaries'[id].periodicity.n)
             /\ HasDeadline(canaries'[id])
             /\ canaries'[id].deadline
                   = canaries'[id].history[1][1] + canaries'[id].periodicity.n]_vars

\* a canary created at instant 1 with periodicity 2 and deadline 3
C13_Witness ==
    \E id \in DOMAIN canaries :
        /\ canaries[id].periodicity = Num(2)
        /\ canaries[id].history = <<<<1, "Canary created">>>>
        /\ ~canaries[id].paused
        /\ canaries[id].deadline = 3

\* the periodicity is a number <= 0, a schedule text with a newline, or a
\* schedule with an entry of fewer than six fields or with a sixth field
\* that is not a positive number
Malformed(periodicity) ==
    IF periodicity.kind = "num" THEN periodicity.n <= 0
    ELSE \/ periodicity.newline
         \/ \E i \in 1..Len(periodicity.entries) :
               \/ periodicity.entries[i].nfields < 6
               \/ periodicity.entries[i].key <= 0

\* C14: a create (under a name whose slug is free) and an update with a
\* malformed periodicity fail with TypeError and store nothing.
C14_MalformedRejected ==
    [][\A periodicity \in MalformedPeriods :
          /\ Malformed(periodicity)
          /\ \A name \in OneName, paused \in BOOLEAN :
                ( /\ store_find_identifier(canaries, slug(name)) = {}
                  /\ Create(name, periodicity, "", <<>>, paused) )
                => /\ canaries' = canaries
                   /\ \A id \in Ids \ DOMAIN canaries :
                         create(canaries, id, name, periodicity, "", <<>>,
                                paused, now).result = "TypeError"
          /\ \A id \in DOMAIN canaries :
                Update(id, None, Some(periodicity), None, None)
                => /\ canaries' = canaries
                   /\ update(canaries, id, None, Some(periodicity), None, None,
                             now).result = "TypeError"]_vars

\* a canary is stored with the periodicity "* 0 * * * 120; * 5 * * * nan"
\* and a deadline 120 seconds after its creation
C14_Witness ==
    \E id \in DOMAIN canaries :
        /\ canaries[id].periodicity = NaNAtFive
        /\ HasDeadline(canaries[id])
        /\ canaries[id].deadline = canaries[id].history[1][1] + 120

\* C15: the slug collision check is exact.  create(name) fails with
\* AlreadyExists exactly when a stored canary has the slug slug(name);
\* update(id, name) with another name of the canary's own slug succeeds and
\* writes no slug, and with a name of another slug it fails with
\* AlreadyExists exactly when another stored canary has the slug slug(name).
C15_CollisionExact ==
    \A name \in SlugNames :
        /\ \A id \in Ids \ DOMAIN canaries :
              create(canaries, id, name, Num(1), "", <<>>, FALSE, now).result
                  = "AlreadyExists"
              <=> \E j \in DOMAIN canaries : canaries[j].slug = slug(name)
        /\ \A id \in DOMAIN canaries :
              /\ ( /\ slug(name) = canaries[id].slug
                    /\ name # canaries[id].name )
                 => /\ update(canaries, id, Some(name), None, None, None,
                              now).result = "ok"
                    /\ "slug" \notin UpdatedKeys(
                           update(canaries, id, Some(name), None, None, None,
                                  now).updates)
              /\ slug(name) # canaries[id].slug
                 => ( update(canaries, id, Some(name), None, None, None,
                             now).result = "AlreadyExists"
                      <=> \E j \in DOMAIN canaries \ {id} :
                             canaries[j].slug = slug(name) )

\* the only stored canary has the slug "-", and its update to the name
\* "-!-", of slug "--", fails with AlreadyExists
C15_Witness ==
    \E id \in DOMAIN canaries :
        /\ DOMAIN canaries = {id}
        /\ canaries[id].slug = <<"-">>
        /\ slug(<<"-", "!", "-">>) = <<"-", "-">>
        /\ update(canaries, id, Some(<<"-", "!", "-">>), None, None, None,
                  now).result = "AlreadyExists"

\* C16: slug is idempotent: for the name of every canary stored,
\* slug(slug(name)) = slug(name), its slug being slug(name).
C16_SlugIdempotent ==
    \A id \in DOMAIN canaries :
        /\ canaries[id].slug = slug(canaries[id].name)
        /\ slug(slug(canaries[id].name)) = slug(canaries[id].name)

\* a canary named "-!-" is stored with the slug "--", whose slug is "-"
C16_Witness ==
    \E id \in DOMAIN canaries :
        /\ canaries[id].name = <<"-", "!", "-">>
        /\ canaries[id].slug = <<"-", "-">>
        /\ slug(canaries[id].slug) = <<"-">>

\* C17: an update that changes the periodicity of an unpaused canary stores
\* the deadline h + D(h, new periodicity), h being the stamp of the history
\* head, stores late = TRUE exactly when that deadline is before now, and
\* notifies (late when the canary became late, recovered when it stopped
\* being late) exactly when the late flag changed.
C17_UpdateRecomputesDeadline ==
    [][\A id \in Ids, periodicity \in Periods :
          ( /\ Kept(id)
            /\ ~canaries[id].paused
            /\ periodicity # canaries[id].periodicity
            /\ update(canaries, id, None, Some(periodicity), None, None,
                      now).result = "ok"
            /\ Update(id, None, Some(periodicity), None, None) )
          => /\ canaries'[id].periodicity = periodicity
             /\ canaries'[id].deadline
                   = canaries[id].history[1][1]
                     + ExpectedDelta(periodicity, canaries[id].history[1][1])
             /\ canaries'[id].late <=> canaries'[id].deadline < now
             /\ mail' # <<>> <=> canaries'[id].late # canaries[id].late
             /\ mail' # <<>>
                => /\ Len(mail') = 1
                   /\ mail'[1].id = id
                   /\ mail'[1].kind = IF canaries'[id].late THEN "late"
                                      ELSE "recovered"]_vars

\* an update to a longer periodicity has just moved the deadline of a late
\* canary into the future: the canary is no longer late and the recovery
\* notice is the mail of the step
C17_Witness ==
    \E id \in DOMAIN canaries :
        /\ canaries[id].periodicity = Num(2)
        /\ canaries[id].history[1][2] = "Canary created"
        /\ HasDeadline(canaries[id])
        /\ canaries[id].deadline = canaries[id].history[1][1] + 2
        /\ canaries[id].deadline > now
        /\ ~canaries[id].late
        /\ \E k \in 1..Len(mail) : mail[k].id = id /\ mail[k].kind = "recovered"

\* C18: pause of a paused canary fails with AlreadyPaused and changes no
\* canary; pause of an unpaused canary, late or not, leaves it paused, without
\* deadline field, not late, and with one new entry at the head of its
\* history.
C18_Pause ==
    [][\A id \in Ids :
          (Kept(id) /\ Pause(id))
          => IF canaries[id].paused
             THEN /\ pause(canaries, id, now).result = "AlreadyPaused"
                  /\ canaries' = canaries
             ELSE /\ canaries'[id].paused
                  /\ ~HasDeadline(canaries'[id])
                  /\ ~canaries'[id].late
                  /\ Len(canaries'[id].history) = Len(canaries[id].history) + 1
                  /\ Tail(canaries'[id].history) = canaries[id].history
                  /\ Head(canaries'[id].history) = <<now, "Paused">>]_vars

\* a canary created at instant 0 has just been paused at a later instant
C18_Witness ==
    \E id \in DOMAIN canaries :
        /\ canaries[id].paused /\ ~canaries[id].late
        /\ ~HasDeadline(canaries[id])
        /\ now > 0
        /\ canaries[id].history = <<<<now, "Paused">>, <<0, "Canary created">>>>

\* C19: unpause of a canary that is not paused fails with AlreadyUnpaused and
\* changes no canary; unpause at instant now of a paused canary leaves it not
\* paused, not late, with one new history head stamped now, and with the
\* deadline now + D(now, periodicity), the periodicity being the one stored
\* (as last updated while the canary was paused).
C19_Unpause ==
    [][\A id \in Ids :
          (Kept(id) /\ Unpause(id))
          => IF ~canaries[id].paused
             THEN /\ unpause(canaries, id, now).result = "AlreadyUnpaused"
                  /\ canaries' = canaries
             ELSE /\ ~canaries'[id].paused
                  /\ ~canaries'[id].late
                  /\ Len(canaries'[id].history) = Len(canaries[id].history) + 1
                  /\ Tail(canaries'[id].history) = canaries[id].history
                  /\ Head(canaries'[id].history) = <<now, "Unpaused">>
                  /\ canaries'[id].periodicity = canaries[id].periodicity
                  /\ HasDeadline(canaries'[id])
                  /\ canaries'[id].deadline
                        = now + ExpectedDelta(canaries[id].periodicity, now)]_vars

\* a canary created at instant 0 has just been unpaused at a later instant,
\* with the periodicity 2
C19_Witness ==
    \E id \in DOMAIN canaries :
        /\ ~canaries[id].paused /\ ~canaries[id].late
        /\ now > 0
        /\ canaries[id].history = <<<<now, "Unpaused">>, <<0, "Canary created">>>>
        /\ canaries[id].periodicity = Num(2)
        /\ HasDeadline(canaries[id])
        /\ canaries[id].deadline = now + 2

\* C20: trigger returns the pair (was_late, was_paused) of the late and
\* paused flags the canary had stored just before, and it sends a recovery
\* notice exactly when was_late is true.
C20_TriggerReturn ==
    [][\A id \in Ids :
          ( /\ Kept(id)
            /\ trigger(canaries, id, now).result = "ok"
            /\ Trigger(id) )
          => /\ trigger(canaries, id, now).ret
                   = <<canaries[id].late, canaries[id].paused>>
             /\ mail' # <<>> <=> canaries[id].late
             /\ mail' # <<>>
                => /\ Len(mail') = 1
                   /\ mail'[1].id = id
                   /\ mail'[1].kind = "recovered"]_vars

\* a canary created at instant 0 with periodicity 1 and not stored late
\* since has just been triggered at instant 2 or later: nobody is notified,
\* and a trigger now would return (FALSE, FALSE)
C20_Witness ==
    \E id \in DOMAIN canaries :
        /\ now >= 2
        /\ canaries[id].periodicity = Num(1)
        /\ canaries[id].history = <<<<now, "Triggered">>, <<0, "Canary created">>>>
        /\ ~canaries[id].paused /\ ~canaries[id].late
        /\ mail = <<>>
        /\ trigger(canaries, id, now).ret = <<FALSE, FALSE>>

\* C21: when the transport fails for a notice of a step (a firing, a trigger
\* or an update), the step still completes: the late flag each notice of the
\* step tells of is stored, a firing has marked every elapsed canary, and the
\* timer is armed for the soonest deadline of the canaries that are running
\* and not late (current_alarm is None when there is none).
C21_NotifierFailureSwallowed ==
    [][(\E k \in 1..Len(mail') :
           ~mail'[k].sent /\ canaries'[mail'[k].id].emails # <<>>)
       => /\ \A k \in 1..Len(mail') :
                canaries'[mail'[k].id].late <=> mail'[k].kind = "late"
          /\ Fire => /\ \A id \in Elapsed : canaries'[id].late
                      /\ Len(mail') = Cardinality(Elapsed)
          /\ IF Upcoming(canaries') = {} THEN current_alarm' = None
             ELSE \E id \in FirstUpcoming(canaries') :
                     /\ current_alarm' = Some(canaries'[id].deadline)
                     /\ alarm' = Some(now + Max2(1, canaries'[id].deadline - now))]_vars

\* one firing has marked two canaries late; the transport failed for the
\* first notice and worked for the second
C21_Witness ==
    /\ Len(mail) = 2
    /\ mail[1].kind = "late" /\ ~mail[1].sent
    /\ mail[2].kind = "late" /\ mail[2].sent
    /\ canaries[mail[1].id].emails # <<>>
    /\ canaries[mail[1].id].late /\ canaries[mail[2].id].late

\* C22: an update in which no supplied field differs from the stored value,
\* the emails being compared as sets, fails with ValueError and writes
\* nothing.
C22_NoOpUpdateRejected ==
    \A id \in DOMAIN canaries :
        \A name \in Optional(Names), periodicity \in Optional(Periods),
           description \in Optional({"", "d"}), emails \in Optional(EmailOrders) :
            ( /\ name = None \/ name[1] = canaries[id].name
              /\ periodicity = None \/ periodicity[1] = canaries[id].periodicity
              /\ description = None \/ description[1] = canaries[id].description
              /\ \/ emails = None
                 \/ {emails[1][k] : k \in 1..Len(emails[1])}
                      = {canaries[id].emails[k] : k \in 1..Len(canaries[id].emails)} )
            => /\ update(canaries, id, name, periodicity, description, emails,
                         now).result = "ValueError"
               /\ update(canaries, id, name, periodicity, description, emails,
                         now).updates = NoUpdates

\* a canary has been updated to the description "d" and the emails x, x, y:
\* an update to the emails y, x is rejected
C22_Witness ==
    \E id \in DOMAIN canaries :
        /\ canaries[id].description = "d"
        /\ canaries[id].emails = <<"x", "x", "y">>
        /\ canaries[id].periodicity = Num(2)
        /\ update(canaries, id, Some(canaries[id].name), Some(Num(2)), Some("d"),
                  Some(<<"y", "x">>), now).result = "ValueError"

\* C37: once a canary with a schedule has been accepted by create or update
\* (the call returned: the schedule has no two entries matching one minute,
\* so that periodicity_schedule returned too), a trigger of it at any later
\* time computes a deadline and succeeds, and so does an unpause of it while
\* it is paused.
C37_AcceptedNeverFails ==
    \A id \in DOMAIN canaries :
        ( /\ canaries[id].periodicity.kind = "sched"
          /\ ~Overlapping(canaries[id].periodicity.entries) )
        => \A t \in {now, ONE_HOUR, 5 * ONE_HOUR} :
              /\ trigger(canaries, id, t).result = "ok"
              /\ canaries[id].paused
                 => unpause(canaries, id, t).result = "ok"

\* "* 0 * * * 120; * 5 * * * nan" was accepted for a paused canary in the
\* hour 00; its unpause and its trigger at 01:00 raise ValueError
C37_Witness ==
    \E id \in DOMAIN canaries :
        /\ canaries[id].periodicity = NaNAtFive
        /\ canaries[id].paused
        /\ unpause(canaries, id, ONE_HOUR).result = "ValueError"
        /\ trigger(canaries, id, ONE_HOUR).result = "ValueError"
        /\ trigger(canaries, id, now).result = "ok"

----------------------------------------------------------------------------
(* The handler between an operation's read and its write, for canaries     *)
(* that have a recipient, so that every notice is handed to smtplib.       *)

AlertNext ==
    \/ \E name \in OneName, periodicity \in Periods, paused \in BOOLEAN :
          Create(name, periodicity, "", <<"x">>, paused)
    \/ \E id \in Ids, periodicity \in Optional(Periods) :
          UpdateRead(id, None, periodicity, None, None)
    \/ \E id \in Ids : TriggerRead(id)
    \/ \E id \in Ids : PauseRead(id)
    \/ \E id \in Ids : UnpauseRead(id)
    \/ Write
    \/ \E id \in Ids : Delete(id)
    \/ Fire
    \/ pending = None /\ Tick

SpecAlert == Init /\ [][AlertNext]_vars

\* C38: for each canary, two late notifications are never emitted without
\* its stored late flag having been false in between, the handler running in
\* the middle of an update or trigger included: when a step emits a late
\* notification for a canary right after a step that emitted one for it, the
\* stored flag is false in the state between the two.
C38_OneLateAlertPerEpisode ==
    [][\A id \in DOMAIN canaries :
          LET LateSent(notices) ==
                  \E k \in 1..Len(notices) :
                      /\ notices[k].id = id
                      /\ notices[k].kind = "late"
                      /\ notices[k].sent
          IN  (LateSent(mail) /\ LateSent(mail')) => ~canaries[id].late]_vars

\* update has read a canary that is not late and takes it for late; the
\* handler has since marked the canary late and sent the late notification,
\* and the update is about to write late = True and to notify
C38_Witness ==
    /\ pending # None
    /\ pending[1].op = "update"
    /\ pending[1].notify
    /\ "late" \in DOMAIN pending[1].updates.vals
    /\ pending[1].updates.vals["late"]
    /\ ~pending[1].canary.late
    /\ canaries[pending[1].id].late
    /\ \E k \in 1..Len(mail) :
          mail[k] = [id |-> pending[1].id, kind |-> "late", sent |-> TRUE]

\* C39: a create or update that fails leaves every stored record, the set
\* of stored ids and current_alarm as they were before the call, and sends
\* no notification.  The call fails when it raises before the store is
\* written (AlreadyExists, CanaryNotFound, TypeError from the validation,
\* ValueError for no updates) and when periodicity_schedule raises
\* CronTabScheduleException after it, which it does for a schedule with two
\* entries matching one minute of the week.
C39_FailedChangesNothing ==
    [][/\ \A name \in OneName, periodicity \in SchedPeriods, paused \in BOOLEAN :
             ( /\ Create(name, periodicity, "", <<>>, paused)
               /\ \/ \A id \in Ids \ DOMAIN canaries :
                        create(canaries, id, name, periodicity, "", <<>>,
                               paused, now).result # "ok"
                  \/ /\ periodicity.kind = "sched"
                     /\ Overlapping(periodicity.entries) )
             => /\ canaries' = canaries
                /\ current_alarm' = current_alarm
                /\ mail' = <<>>
       /\ \A id \in Ids, periodicity \in SchedPeriods :
             ( /\ Update(id, None, Some(periodicity), None, None)
               /\ \/ update(canaries, id, None, Some(periodicity), None, None,
                            now).result # "ok"
                  \/ /\ periodicity.kind = "sched"
                     /\ Overlapping(periodicity.entries) )
             => /\ canaries' = canaries
                /\ current_alarm' = current_alarm
                /\ mail' = <<>>]_vars

\* at 00:00:00 the create of a canary with "* 0 * * * 60; * 5 * * * 30;
\* * 5 * * * 120" has raised CronTabScheduleException: the canary is stored
\* and the timer is armed for its deadline
C39_Witness ==
    /\ now = 0
    /\ \E id \in DOMAIN canaries :
          /\ canaries[id].periodicity = OverlapAtFive
          /\ ~canaries[id].paused
          /\ Len(canaries[id].history) = 1
          /\ current_alarm = Some(canaries[id].deadline)
          /\ validate_periodicity(OverlapAtFive, now).status = "ok"

----------------------------------------------------------------------------
(* Periodicities under half a microsecond: the number 1e-7 and the         *)
(* schedule "* * * * * 1e-7", next to the number 1.                        *)

MicroNext ==
    \/ \E name \in OneName, paused \in BOOLEAN,
          periodicity \in {Num(1), Num(BelowMicrosecond),
                           Sched(<<Entry(Star, Star, Star, BelowMicrosecond)>>)} :
          Create(name, periodicity, "", <<>>, paused)
    \/ \E id \in Ids : Trigger(id)
    \/ \E id \in Ids : Pause(id)
    \/ \E id \in Ids : Unpause(id)
    \/ \E id \in Ids : Delete(id)
    \/ pending = None /\ Fire
    \/ Tick

SpecMicro == Init /\ [][MicroNext]_vars

\* C40: the delta computed for a periodicity that validation accepts is
\* strictly positive: after create (unpaused), trigger and unpause the
\* stored deadline is strictly later than the timestamp of the history head
\* entry it was computed from.
C40_DeadlineAfterHead ==
    \A id \in DOMAIN canaries :
        /\ validate_periodicity(canaries[id].periodicity, now).status = "ok"
           => validate_periodicity(canaries[id].periodicity, now).delta > 0
        /\ ~canaries[id].paused
           => canaries[id].deadline > canaries[id].history[1][1]

\* a canary with the periodicity 1e-7 has been triggered or unpaused: its
\* deadline is the timestamp of its history head
C40_Witness ==
    \E id \in DOMAIN canaries :
        /\ canaries[id].periodicity = Num(BelowMicrosecond)
        /\ ~canaries[id].paused
        /\ Len(canaries[id].history) > 1
        /\ canaries[id].history[1][1] = now
        /\ canaries[id].deadline = canaries[id].history[1][1]

====
